---- MODULE Spec2Model ----
(***************************************************************************)
(* Client-side state synchronisation of oc-mobile: the zustand sessions    *)
(* store (lib/stores/sessions.ts), the TanStack Query session cache and    *)
(* its SSE updaters (lib/query/hooks), the SSE event channel               *)
(* (lib/opencode/use-events.ts) and the session detail screen.             *)
(***************************************************************************)
EXTENDS Integers, Sequences, FiniteSets, TLC

\* ------------------------------------------------------------------ bounds
MaxTok == 2
MaxPending == 1
MaxVisits == 2
MaxSources == 3

\* ------------------------------------------------------------------ values
SessionIds == {"s1", "s2"}
None == "none"
Null == [kind |-> "null"]
Absent == [kind |-> "absent"]

\* Message ids and the session each belongs to (Message.sessionID).
MsgIds == {"m1", "m2", "m3"}
SessionOfMsg(i) == IF i = "m3" THEN "s2" ELSE "s1"
PartIds == {"p1", "p2"}

NoTokens == [present |-> FALSE, input |-> 0, output |-> 0]
Tokens(i, o) == [present |-> TRUE, input |-> i, output |-> o]
TokenInputs == {NoTokens} \cup {Tokens(i, MaxTok + 1 - i) : i \in 1..MaxTok}

Message(i, r, t) == [id |-> i, sessionID |-> SessionOfMsg(i), role |-> r, tokens |-> t]
\* Message infos an event or a fetch can carry: assistant messages with or
\* without tokens, user messages without.
MessageInputs ==
  {Message(i, "assistant", t) : i \in MsgIds, t \in TokenInputs}
    \cup {Message(i, "user", NoTokens) : i \in MsgIds}

Part(p, m, x) == [id |-> p, messageID |-> m, sessionID |-> SessionOfMsg(m), text |-> x]
PartInputs == {Part(p, m, x) : p \in PartIds, m \in MsgIds, x \in {"a", "b"}}

Idle == "idle"
Busy == "busy"

\* ------------------------------------------------------------------ helpers
RECURSIVE SumInput(_)
SumInput(ms) ==
  IF ms = <<>> THEN 0
  ELSE (IF Head(ms).info.role = "assistant" /\ Head(ms).info.tokens.present
          THEN Head(ms).info.tokens.input ELSE 0) + SumInput(Tail(ms))

RECURSIVE SumOutput(_)
SumOutput(ms) ==
  IF ms = <<>> THEN 0
  ELSE (IF Head(ms).info.role = "assistant" /\ Head(ms).info.tokens.present
          THEN Head(ms).info.tokens.output ELSE 0) + SumOutput(Tail(ms))


calculateTokenCounts(ms) ==
  [input |-> SumInput(ms), output |-> SumOutput(ms),
   total |-> SumInput(ms) + SumOutput(ms)]

ZeroCounts == [input |-> 0, output |-> 0, total |-> 0]


UpsertPart(parts, part) ==
  IF \E k \in 1..Len(parts) : parts[k].id = part.id
    THEN [k \in 1..Len(parts) |-> IF parts[k].id = part.id THEN part ELSE parts[k]]
    ELSE Append(parts, part)

\* updateMessageFromEvent / updateMessage: the message list after the upsert.
UpsertMessageAlwaysAppend(messages, message) ==
  Append(messages, [info |-> message, parts |-> <<>>])

UpsertMessage(messages, message) ==
  IF \E k \in 1..Len(messages) : messages[k].info.id = message.id
    THEN [k \in 1..Len(messages) |->
            IF messages[k].info.id = message.id
              THEN [messages[k] EXCEPT !.info = message] ELSE messages[k]]
    ELSE Append(messages, [info |-> message, parts |-> <<>>])

\* The part upsert, as it would read if a part without its message were
\* kept under a message made for it.
ApplyPartBuffered(messages, part) ==
  IF \E k \in 1..Len(messages) : messages[k].info.id = part.messageID
    THEN [k \in 1..Len(messages) |->
            IF messages[k].info.id # part.messageID THEN messages[k]
            ELSE [messages[k] EXCEPT !.parts = UpsertPart(messages[k].parts, part)]]
    ELSE Append(messages,
                [info |-> [id |-> part.messageID, sessionID |-> part.sessionID,
                           role |-> "assistant",
                           tokens |-> [present |-> FALSE, input |-> 0, output |-> 0]],
                 parts |-> <<part>>])

ApplyPart(messages, part) ==
  [k \in 1..Len(messages) |->
     IF messages[k].info.id # part.messageID THEN messages[k]
     ELSE [messages[k] EXCEPT !.parts = UpsertPart(messages[k].parts, part)]]

\* ------------------------------------------------------------------ state
VARIABLES
  route,              \* the session detail screen's id param; None when unmounted
  currentSession,     \* sessions store: the live buffer (Null or a record)
  sessionTokenCounts, \* sessions store: per session id, Absent or token counts
  pending,            \* in-flight fetchSession / fetchSessionMessages calls
  msgCache,           \* query cache: the messages entry of each session id
  qpending,           \* query cache: a useSessionMessages fetch is in flight
  visit               \* history of the screen's visits (what the properties refer to)

storeVars ==
  <<route, currentSession, sessionTokenCounts, pending, msgCache, qpending, visit>>

VARIABLES
  conn,                \* isConnected, serverUrl, activeProjectPath as last rendered
  mounted,             \* the component calling useEvents() is mounted
  sources,             \* every EventSource the channel created, in creation order
  eventSourceRef,      \* eventSourceRef.current: 0 (null) or an index of sources
  timers,              \* every reconnect timer set, in creation order
  reconnectTimeoutRef  \* reconnectTimeoutRef.current: 0 (null) or an index of timers

chanVars == <<conn, mounted, sources, eventSourceRef, timers, reconnectTimeoutRef>>

VARIABLES
  srv,             \* the server: per session id, 0 (no such session) or time.updated
  now,             \* the server's clock
  evq,             \* session events sent on the SSE stream, not yet handled
  resp,            \* responses to the client's requests, not yet handled
  listCache,       \* query cache: the session list entry (sessions and statuses)
  detailCache,     \* query cache: the detail entry of each session id
  listInvalidated  \* query cache: the session list entry is marked invalidated

listVars == <<srv, now, evq, resp, listCache, detailCache, listInvalidated>>

VARIABLES
  sessionStatuses, \* sessions store: per session id, None or the status last set
  srvStatus        \* the server: the status of each session

statusVars == <<sessionStatuses, srvStatus>>

VARIABLES
  storeSessions    \* sessions store: sessions, the store's own session list

legacyVars == <<storeSessions>>

VARIABLES
  req,             \* hook mutations: remote calls the retryer has scheduled
  rejected         \* hook mutations that were rejected to their caller

mutVars == <<req, rejected>>

VARIABLES
  pendingPermissions, \* permissions store: the queue of permission requests
  permCalls,          \* respondToPermission calls waiting for the server
  permResults         \* what the respondToPermission calls have returned

permVars == <<pendingPermissions, permCalls, permResults>>

VARIABLES
  activePair,      \* servers store: the active server's url and activeProjectPath
  eventPair,       \* the pair the open event connection and its handlers were made for
  scopedCache,     \* query cache: per key pair, the pairs its session data came from
  scopedStore,     \* sessions store: the pairs its sessions / sessionStatuses came from
  scopeFetch       \* session list fetches in flight

scopeVars == <<activePair, eventPair, scopedCache, scopedStore, scopeFetch>>

VARIABLES
  dropped          \* the connection whose listener last caught a parse failure (0: none)

frameVars == <<dropped>>

VARIABLES
  servers,         \* servers store: the ServerConfig list
  serverStates,    \* servers store: ServerState per server id
  activeServerId,  \* servers store
  uuids,           \* how many ids uuid.v4() has handed out
  calls,           \* handleAdd / connectToServer calls waiting for the health probe
  returns          \* what the connectToServer calls have resolved to

serverVars == <<servers, serverStates, activeServerId, uuids, calls, returns>>

VARIABLES
  storedServers,     \* AsyncStorage: the list under @opencode/servers
  storedActiveId,    \* AsyncStorage: @opencode/active-server
  storedProjects,    \* AsyncStorage: @opencode/active-project/<id>, per id
  activeProjectPath, \* servers store
  projects,          \* servers store
  clients            \* the urls getClient has a cached client for

storageVars ==
  <<storedServers, storedActiveId, storedProjects, activeProjectPath, projects,
    clients>>

VARIABLES
  savedModel,      \* selectedModelQuery.data: the saved model id, <<>> for none
  modelsData,      \* useModels().data
  selectedModel    \* what useSelectedModel last returned as selectedModel

selVars == <<savedModel, modelsData, selectedModel>>

VARIABLES
  invalidatedKeys  \* query cache: the keys invalidateAll marked when the channel last opened

invVars == <<invalidatedKeys>>

VARIABLES
  storageQueue     \* AsyncStorage: the operations waiting for a request, in the order requested

asyncVars == <<storageQueue>>

VARIABLES
  currentPermission \* PermissionHandler: the permission the modal shows

handlerVars == <<currentPermission>>

VARIABLES
  agentSaved,      \* AsyncStorage: @opencode/selected_agent
  agentQuery,      \* query cache: the data of ["selectedAgent"]
  agentsData,      \* useAgents().data
  storeAgents,     \* agents store: agents
  storeAgent       \* agents store: selectedAgent

agentVars == <<agentSaved, agentQuery, agentsData, storeAgents, storeAgent>>

\* The state modelled after the sessions store, the channel and the session
\* list, and what each part of it is followed by.
afterHandler == <<agentVars>>
afterAsync == <<handlerVars, afterHandler>>
afterInv == <<asyncVars, afterAsync>>
afterSel == <<invVars, afterInv>>
afterStorage == <<selVars, afterSel>>
afterServers == <<storageVars, afterStorage>>
afterFrame == <<serverVars, afterServers>>
afterScope == <<frameVars, afterFrame>>
afterPerm == <<scopeVars, afterScope>>
afterMut == <<permVars, afterPerm>>
afterLegacy == <<mutVars, afterMut>>
afterStatus == <<legacyVars, afterLegacy>>
extraVars == <<statusVars, afterStatus>>

\* What the actions on the sessions store and the messages cache leave alone.
notStore == <<chanVars, listVars, extraVars>>

FetchKinds == {"session", "messages"}

\* A session as the server returns it.
MaxTime == 3
Times == 1..MaxTime
Session(i, t) == [id |-> i, updated |-> t]

\* What session.messages can answer for a session: messages of that session.
Snapshots(s) ==
  IF s = "s1"
    THEN {<<>>,
          <<[info |-> Message("m1", "user", NoTokens), parts |-> <<>>]>>,
          <<[info |-> Message("m1", "user", NoTokens), parts |-> <<Part("p1", "m1", "a")>>],
            [info |-> Message("m2", "assistant", Tokens(MaxTok, 1)), parts |-> <<>>]>>}
    ELSE {<<>>, <<[info |-> Message("m3", "assistant", Tokens(1, MaxTok)), parts |-> <<>>]>>}
TodoInputs == {<<>>, <<"t1">>}
StatusInputs == {Idle, Busy}

\* visit.n: times "s1" was entered; firstEv: an event reached the live buffer
\* during the first of them; between: another session was entered since;
\* ev: an event reached the live buffer during this visit; early: the ids of
\* the messages such events carried before this visit's fetch completed;
\* loaded: what this visit's messages fetch answered (<<>> if not yet, else
\* <<messages>>); since: an event was handled after the first visit of "s1"
\* had ended.
NoVisit ==
  [n |-> 0, firstEv |-> FALSE, between |-> FALSE, ev |-> FALSE, early |-> {},
   loaded |-> <<>>, since |-> FALSE]

VisitEntered(v, id) ==
  [v EXCEPT !.n = IF id = "s1" THEN @ + 1 ELSE @,
            !.between = IF id # "s1" /\ v.n > 0 THEN TRUE ELSE @,
            !.ev = FALSE, !.early = {}, !.loaded = <<>>]

VisitLeft(v) == [v EXCEPT !.ev = FALSE, !.early = {}, !.loaded = <<>>]

VisitLoaded(v, messages) == [v EXCEPT !.loaded = <<messages>>]

\* An event of session sid reaches the live buffer of the visited session.
VisitEvent(v, cs, rt, sid, mids) ==
  LET w == [v EXCEPT !.since = IF v.n >= 1 /\ ~(v.n = 1 /\ rt = "s1") THEN TRUE ELSE @]
  IN IF cs # Null /\ cs.session.id = sid /\ rt = sid
       THEN [w EXCEPT !.ev = TRUE,
                      !.firstEv = IF v.n = 1 /\ rt = "s1" THEN TRUE ELSE @,
                      !.early = IF v.loaded = <<>> THEN @ \cup mids ELSE @]
       ELSE w

InitStore ==
  /\ route = None
  /\ currentSession = Null
  /\ sessionTokenCounts = [s \in SessionIds |-> Absent]
  /\ pending = [k \in FetchKinds |-> [s \in SessionIds |-> 0]]
  /\ msgCache = [s \in SessionIds |-> Absent]
  /\ qpending = [s \in SessionIds |-> FALSE]
  /\ visit = NoVisit

IsCurrent(cs, s) == cs # Null /\ cs.session.id = s

\* ------------------------------------------------------------------ sessions store
\* clearCurrentSession
clearCurrentSession(cs) == Null

\* fetchSession's set(): the buffer after a session.get answer arrives.
fetchSessionSet(cs, data) ==
  IF cs # Null THEN [cs EXCEPT !.session = data]
  ELSE [session |-> data, messages |-> <<>>, todos |-> <<>>, status |-> Idle]

\* fetchSessionMessages' set(): the buffer after the three answers arrive.
fetchSessionMessagesSet(cs, messages, todos, status) ==
  IF cs # Null
    THEN [cs EXCEPT !.messages = messages, !.todos = todos, !.status = status]
    ELSE Null

\* updateMessageFromEvent, as it would read without the check of the
\* message's session.
updateMessageFromEventAnySession(cs, message) ==
  IF cs = Null THEN cs
  ELSE [cs EXCEPT !.messages = UpsertMessage(cs.messages, message)]

\* updateMessageFromEvent: the buffer's message list.
updateMessageFromEvent(cs, message) ==
  IF cs = Null THEN cs
  ELSE IF cs.session.id # message.sessionID THEN cs
  ELSE [cs EXCEPT !.messages = UpsertMessage(cs.messages, message)]

\* updateMessageFromEvent: sessionTokenCounts.
updateMessageTokenCounts(cs, counts, message) ==
  IF cs = Null THEN counts
  ELSE IF cs.session.id # message.sessionID THEN counts
  ELSE [counts EXCEPT ![message.sessionID] =
          calculateTokenCounts(UpsertMessage(cs.messages, message))]

\* updatePartFromEvent
updatePartFromEvent(cs, part) ==
  IF cs = Null THEN cs
  ELSE IF cs.session.id # part.sessionID THEN cs
  ELSE [cs EXCEPT !.messages = ApplyPart(cs.messages, part)]

\* ------------------------------------------------------------------ query cache
\* useSessionMessages / usePrefetchSession queryFn: the entry a fetch stores.
SessionMessagesData(messages, todos, status) ==
  [kind |-> "data", messages |-> messages, todos |-> todos, status |-> status,
   tokenCounts |-> calculateTokenCounts(messages)]

HasData(e) == e.kind = "data"

\* useSessionQueryUpdaters.updateMessage: setQueryData's updater.
updateMessage(old, message) ==
  IF ~HasData(old) THEN Null
  ELSE LET messages == UpsertMessage(old.messages, message)
       IN [old EXCEPT !.messages = messages,
                      !.tokenCounts = calculateTokenCounts(messages)]

\* useSessionQueryUpdaters.updatePart: setQueryData's updater.
updatePart(old, part) ==
  IF ~HasData(old) THEN Null
  ELSE [old EXCEPT !.messages = ApplyPart(old.messages, part)]

\* ------------------------------------------------------------------ session screen (store fetches)
\* The screen's fetch effect for a new id param: the previous effect's cleanup
\* (clearCurrentSession), then fetchSession(id) and fetchSessionMessages(id),
\* both left in flight.
EnterSession(id) ==
  /\ UNCHANGED notStore
  /\ route # id
  /\ id = "s1" => visit.n < MaxVisits
  /\ pending["session"][id] < MaxPending
  /\ pending["messages"][id] < MaxPending
  /\ route' = id
  /\ currentSession' = IF route # None THEN clearCurrentSession(currentSession)
                       ELSE currentSession
  /\ pending' = [pending EXCEPT !["session"][id] = @ + 1, !["messages"][id] = @ + 1]
  /\ visit' = VisitEntered(visit, id)
  /\ UNCHANGED <<sessionTokenCounts, msgCache, qpending>>

\* The screen unmounts: the effect's cleanup.
LeaveSession ==
  /\ UNCHANGED notStore
  /\ route # None
  /\ route' = None
  /\ currentSession' = clearCurrentSession(currentSession)
  /\ visit' = VisitLeft(visit)
  /\ UNCHANGED <<sessionTokenCounts, pending, msgCache, qpending>>

\* fetchSession(id) resumes after session.get: data, or a failure.
FetchSessionDone(id, data, ok) ==
  /\ UNCHANGED notStore
  /\ pending["session"][id] > 0
  /\ pending' = [pending EXCEPT !["session"][id] = @ - 1]
  /\ currentSession' = IF ok THEN fetchSessionSet(currentSession, data)
                       ELSE currentSession
  /\ UNCHANGED <<route, sessionTokenCounts, msgCache, qpending, visit>>

\* fetchSessionMessages(id) resumes after Promise.all: answers, or a failure.
FetchSessionMessagesDone(id, messages, todos, status, ok) ==
  /\ UNCHANGED notStore
  /\ pending["messages"][id] > 0
  /\ pending' = [pending EXCEPT !["messages"][id] = @ - 1]
  /\ IF ok
       THEN /\ currentSession' =
                 fetchSessionMessagesSet(currentSession, messages, todos, status)
            /\ sessionTokenCounts' =
                 [sessionTokenCounts EXCEPT ![id] = calculateTokenCounts(messages)]
       ELSE UNCHANGED <<currentSession, sessionTokenCounts>>
  /\ visit' = IF ok /\ id = route THEN VisitLoaded(visit, messages) ELSE visit
  /\ UNCHANGED <<route, msgCache, qpending>>

\* ------------------------------------------------------------------ session screen (query + live buffer)
\* setCurrentSession(id): mark id as current with an empty live buffer
\* (currentSessionId, currentMessages, currentTodos, currentStatus are the
\* fields of currentSession here).
setCurrentSession(id) ==
  [session |-> [id |-> id], messages |-> <<>>, todos |-> <<>>, status |-> Idle]

\* initializeMessages, initializeTodos, initializeStatus.
initializeFromQuery(cs, data) ==
  [cs EXCEPT !.messages = data.messages, !.todos = data.todos, !.status = data.status]

\* The screen mounts for id, or its id param changes: the first effect's
\* cleanup and body; useSessionMessages(id) fetches when it has no entry or a
\* stale one.
OpenSession(id, stale) ==
  /\ UNCHANGED notStore
  /\ route # id
  /\ id = "s1" => visit.n < MaxVisits
  /\ route' = id
  /\ currentSession' = setCurrentSession(id)
  /\ qpending' = IF msgCache[id] = Absent \/ stale
                   THEN [qpending EXCEPT ![id] = TRUE] ELSE qpending
  /\ visit' = VisitEntered(visit, id)
  /\ UNCHANGED <<sessionTokenCounts, pending, msgCache>>

\* The screen unmounts: the first effect's cleanup.
CloseSession ==
  /\ UNCHANGED notStore
  /\ route # None
  /\ route' = None
  /\ currentSession' = clearCurrentSession(currentSession)
  /\ visit' = VisitLeft(visit)
  /\ UNCHANGED <<sessionTokenCounts, pending, msgCache, qpending>>

\* The screen's second effect: query data is copied into an empty live buffer.
SyncQueryToStore ==
  /\ UNCHANGED notStore
  /\ route # None
  /\ HasData(msgCache[route])
  /\ IsCurrent(currentSession, route)
  /\ Len(currentSession.messages) = 0
  /\ currentSession' = initializeFromQuery(currentSession, msgCache[route])
  /\ currentSession' # currentSession
  /\ UNCHANGED <<route, sessionTokenCounts, pending, msgCache, qpending, visit>>

\* The messages the query-backed screen lists for id.
ViewMessages(id) ==
  IF IsCurrent(currentSession, id) /\ Len(currentSession.messages) > 0
    THEN currentSession.messages
    ELSE IF HasData(msgCache[id]) THEN msgCache[id].messages ELSE <<>>

\* ------------------------------------------------------------------ event channel handlers
\* handleEvent, case "message.updated": the store, then the query cache.
MessageUpdated(message) ==
  /\ UNCHANGED notStore
  /\ currentSession' = updateMessageFromEvent(currentSession, message)
  /\ sessionTokenCounts' =
       updateMessageTokenCounts(currentSession, sessionTokenCounts, message)
  /\ msgCache' = [msgCache EXCEPT ![message.sessionID] = updateMessage(@, message)]
  /\ visit' = VisitEvent(visit, currentSession, route, message.sessionID, {message.id})
  /\ UNCHANGED <<route, pending, qpending>>

\* handleEvent, case "message.part.updated": the store, then the query cache.
MessagePartUpdated(part) ==
  /\ UNCHANGED notStore
  /\ currentSession' = updatePartFromEvent(currentSession, part)
  /\ msgCache' = [msgCache EXCEPT ![part.sessionID] = updatePart(@, part)]
  /\ visit' = VisitEvent(visit, currentSession, route, part.sessionID, {})
  /\ UNCHANGED <<route, sessionTokenCounts, pending, qpending>>

\* updateTodosFromEvent
updateTodosFromEvent(cs, sessionId, todos) ==
  IF IsCurrent(cs, sessionId) THEN [cs EXCEPT !.todos = todos] ELSE cs

\* useSessionQueryUpdaters.updateTodos, as it would read if it merged the
\* new items into the list.
updateTodosMerged(old, todos) ==
  IF ~HasData(old) THEN Null ELSE [old EXCEPT !.todos = @ \o todos]

\* useSessionQueryUpdaters.updateTodos: setQueryData's updater.
updateTodos(old, todos) ==
  IF ~HasData(old) THEN Null ELSE [old EXCEPT !.todos = todos]

\* handleEvent, case "todo.updated": the store, then the query cache.
TodoUpdated(sessionId, todos) ==
  /\ UNCHANGED notStore
  /\ currentSession' = updateTodosFromEvent(currentSession, sessionId, todos)
  /\ msgCache' = [msgCache EXCEPT ![sessionId] = updateTodos(@, todos)]
  /\ visit' = VisitEvent(visit, currentSession, route, sessionId, {})
  /\ UNCHANGED <<route, sessionTokenCounts, pending, qpending>>

\* ------------------------------------------------------------------ query fetches
\* A useSessionMessages / usePrefetchSession fetch of id starts.
QueryFetchStart(id) ==
  /\ UNCHANGED notStore
  /\ ~qpending[id]
  /\ qpending' = [qpending EXCEPT ![id] = TRUE]
  /\ UNCHANGED <<route, currentSession, sessionTokenCounts, pending, msgCache, visit>>

\* Its queryFn resolves: the entry is replaced by what was fetched.
QueryFetchDone(id, messages, todos, status) ==
  /\ UNCHANGED notStore
  /\ qpending[id]
  /\ qpending' = [qpending EXCEPT ![id] = FALSE]
  /\ msgCache' = [msgCache EXCEPT ![id] = SessionMessagesData(messages, todos, status)]
  /\ visit' = IF id = route THEN VisitLoaded(visit, messages) ELSE visit
  /\ UNCHANGED <<route, currentSession, sessionTokenCounts, pending>>

\* ------------------------------------------------------------------ event channel (useEvents)
ReconnectDelay == 5000

ServerUrls == {"u1", "u2"}
ProjectPaths == {"p1", "p2"}
\* What a render can read from the servers store: no active server (not
\* connected, no url), or an active server with its status and the project.
ConnStates ==
  {[isConnected |-> FALSE, serverUrl |-> "", projectPath |-> pp] :
     pp \in ProjectPaths \cup {""}}
    \cup [isConnected : BOOLEAN, serverUrl : ServerUrls, projectPath : ProjectPaths \cup {""}]

Active(c) == c.isConnected /\ c.serverUrl # "" /\ c.projectPath # ""
Target(c) == <<c.serverUrl, c.projectPath>>

InitChannel ==
  /\ conn = [isConnected |-> FALSE, serverUrl |-> "", projectPath |-> ""]
  /\ mounted = FALSE
  /\ sources = <<>>
  /\ eventSourceRef = 0
  /\ timers = <<>>
  /\ reconnectTimeoutRef = 0

\* eventSourceRef.current.close(), when there is one.
closeSource(srcs, ref) ==
  IF ref = 0 THEN srcs ELSE [srcs EXCEPT ![ref].state = "closed"]

\* disconnect(), as a bug would write it: the reference is dropped unclosed.
disconnectSourcesNoClose(srcs, ref) == srcs

\* disconnect(): the EventSource part.
disconnectSources(srcs, ref) == closeSource(srcs, ref)

\* disconnect(), as a bug would write it: the timer is left running.
disconnectTimersNoClear(tms, tref) == tms

\* disconnect(): the reconnect timer part (clearTimeout of a timer that has
\* fired changes nothing).
disconnectTimers(tms, tref) ==
  IF tref # 0 /\ tms[tref].state = "pending"
    THEN [tms EXCEPT ![tref].state = "cancelled"] ELSE tms

\* connect() with the closure values c: close what the ref holds, create anew.
connectSources(srcs, ref, c) ==
  Append(closeSource(srcs, ref),
         [target |-> Target(c), state |-> "connecting", errored |-> FALSE, closure |-> c])

\* The error listener, as a bug would write it: the source stays open.
errorListenerCloseForgotten(srcs, i) == [srcs EXCEPT ![i].errored = TRUE]

\* The error listener's eventSource.close().
errorListenerClose(srcs, i) ==
  [srcs EXCEPT ![i].state = "closed", ![i].errored = TRUE]

\* The effect of useEvents for the rendered values c, after its cleanup has run
\* when wasMounted: connect() or disconnect().
RunEffect(c, wasMounted) ==
  LET srcs1 == IF wasMounted THEN disconnectSources(sources, eventSourceRef) ELSE sources
      ref1 == IF wasMounted THEN 0 ELSE eventSourceRef
      tms1 == IF wasMounted THEN disconnectTimers(timers, reconnectTimeoutRef) ELSE timers
      tref1 == IF wasMounted THEN 0 ELSE reconnectTimeoutRef
  IN IF Active(c)
       THEN /\ sources' = connectSources(srcs1, ref1, c)
            /\ eventSourceRef' = Len(srcs1) + 1
            /\ timers' = tms1
            /\ reconnectTimeoutRef' = tref1
       ELSE /\ sources' = disconnectSources(srcs1, ref1)
            /\ eventSourceRef' = 0
            /\ timers' = disconnectTimers(tms1, tref1)
            /\ reconnectTimeoutRef' = 0

\* The component mounts: the effect runs for the first time.
Mount ==
  /\ ~mounted
  /\ Active(conn) => Len(sources) < MaxSources
  /\ mounted' = TRUE
  /\ RunEffect(conn, FALSE)
  /\ UNCHANGED <<conn, storeVars, listVars, extraVars>>

\* The component unmounts: the effect's cleanup.
Unmount ==
  /\ mounted
  /\ mounted' = FALSE
  /\ sources' = disconnectSources(sources, eventSourceRef)
  /\ eventSourceRef' = 0
  /\ timers' = disconnectTimers(timers, reconnectTimeoutRef)
  /\ reconnectTimeoutRef' = 0
  /\ UNCHANGED <<conn, storeVars, listVars, extraVars>>

\* The servers store changes what the hook reads; a mounted component renders
\* again and, its dependencies having changed, cleans up and re-runs the effect.
StoreChange(c) ==
  /\ c # conn
  /\ (mounted /\ Active(c)) => Len(sources) < MaxSources
  /\ conn' = c
  /\ IF mounted THEN RunEffect(c, TRUE)
     ELSE UNCHANGED <<sources, eventSourceRef, timers, reconnectTimeoutRef>>
  /\ UNCHANGED <<mounted, storeVars, listVars, extraVars>>

\* Any other render: useSessionQueryUpdaters() returns a new object, so
\* connect is a new function and the effect is cleaned up and run again.
Rerender ==
  /\ mounted
  /\ Active(conn) => Len(sources) < MaxSources
  /\ RunEffect(conn, TRUE)
  /\ UNCHANGED <<conn, mounted, storeVars, listVars, extraVars>>

\* "open" listener: queryUpdaters.invalidateAll().
\* queryKeys.sessions.list / detail / messages
sessionsListKey(serverUrl, projectPath) ==
  <<"sessions", "list", serverUrl, projectPath>>
sessionsDetailKey(serverUrl, projectPath, id) ==
  <<"sessions", "detail", serverUrl, projectPath, id>>
sessionsMessagesKey(serverUrl, projectPath, id) ==
  <<"sessions", "messages", serverUrl, projectPath, id>>

\* The keys of the session queries the cache holds for a server and project.
CachedSessionKeys(serverUrl, projectPath) ==
  (IF listCache = Absent THEN {} ELSE {sessionsListKey(serverUrl, projectPath)})
    \cup {sessionsDetailKey(serverUrl, projectPath, id) :
            id \in {x \in SessionIds : detailCache[x] # Absent}}
    \cup {sessionsMessagesKey(serverUrl, projectPath, id) :
            id \in {x \in SessionIds : msgCache[x] # Absent}}

\* invalidateQueries({ queryKey }): the queries whose key starts with it.
invalidateQueries(keys, queryKey) ==
  {k \in keys :
     Len(k) >= Len(queryKey) /\ SubSeq(k, 1, Len(queryKey)) = queryKey}

\* queryUpdaters.invalidateAll
invalidateAll(keys, serverUrl, projectPath) ==
  invalidateQueries(keys, sessionsListKey(serverUrl, projectPath))

\* The "open" listener of source i: invalidateAll of the updaters it was
\* made with.
SourceOpen(i) ==
  /\ i \in 1..Len(sources)
  /\ sources[i].state = "connecting"
  /\ sources' = [sources EXCEPT ![i].state = "open"]
  /\ listInvalidated' = TRUE
  /\ LET c == sources[i].closure
     IN invalidatedKeys' =
          invalidateAll(CachedSessionKeys(c.serverUrl, c.projectPath),
                        c.serverUrl, c.projectPath)
  /\ UNCHANGED <<conn, mounted, eventSourceRef, timers, reconnectTimeoutRef, storeVars>>
  /\ UNCHANGED <<srv, now, evq, resp, listCache, detailCache>>
  /\ UNCHANGED <<statusVars, legacyVars, mutVars, permVars, scopeVars, frameVars,
                 serverVars, storageVars, selVars, afterInv>>

\* "error" listener of source i (a closed source delivers nothing).
SourceError(i) ==
  /\ i \in 1..Len(sources)
  /\ sources[i].state # "closed"
  /\ Len(timers) < MaxSources
  /\ sources' = errorListenerClose(sources, i)
  /\ timers' = Append(timers, [source |-> i, state |-> "pending",
                                delay |-> ReconnectDelay,
                                closure |-> sources[i].closure])
  /\ reconnectTimeoutRef' = Len(timers) + 1
  /\ UNCHANGED <<conn, mounted, eventSourceRef, storeVars, listVars, extraVars>>

\* The reconnect timer t fires: if (isConnected) connect(), with the values
\* the listener closed over.
TimerFire(t) ==
  /\ t \in 1..Len(timers)
  /\ timers[t].state = "pending"
  /\ LET c == timers[t].closure
         opens == c.isConnected /\ c.serverUrl # "" /\ c.projectPath # ""
     IN /\ opens => Len(sources) < MaxSources
        /\ timers' = [timers EXCEPT ![t].state = "fired"]
        /\ IF opens
             THEN /\ sources' = connectSources(sources, eventSourceRef, c)
                  /\ eventSourceRef' = Len(sources) + 1
             ELSE UNCHANGED <<sources, eventSourceRef>>
  /\ UNCHANGED <<conn, mounted, reconnectTimeoutRef, storeVars, listVars, extraVars>>

\* ------------------------------------------------------------------ session list
\* The list entry as useSessions' queryFn and the updaters build it; statuses
\* maps a session id to its status, None where the object has no such key.
NoStatuses == [i \in SessionIds |-> None]
ListData(sessions, statuses) ==
  [kind |-> "data", sessions |-> sessions, statuses |-> statuses]

InitList ==
  /\ srv = [i \in SessionIds |-> 0]
  /\ now = 0
  /\ evq = <<>>
  /\ resp = {}
  /\ listCache = Absent
  /\ detailCache = [i \in SessionIds |-> Absent]
  /\ listInvalidated = FALSE

\* Array.prototype.sort((a, b) => b.time.updated - a.time.updated): stable,
\* descending; x goes behind every element that is not older.
RECURSIVE InsertByUpdated(_, _)
InsertByUpdated(sorted, x) ==
  IF sorted = <<>> THEN <<x>>
  ELSE IF Head(sorted).updated >= x.updated
         THEN <<Head(sorted)>> \o InsertByUpdated(Tail(sorted), x)
         ELSE <<x>> \o sorted

RECURSIVE SortByUpdatedDesc(_)
SortByUpdatedDesc(list) ==
  IF list = <<>> THEN <<>>
  ELSE InsertByUpdated(SortByUpdatedDesc(SubSeq(list, 1, Len(list) - 1)),
                       list[Len(list)])

\* sessions.filter((s) => s.id !== id)
WithoutId(list, id) == SelectSeq(list, LAMBDA x : x.id # id)

\* sessions.map((s) => s.id === session.id ? session : s)
ReplaceById(list, session) ==
  [k \in 1..Len(list) |-> IF list[k].id = session.id THEN session ELSE list[k]]

\* useSessions' queryFn on the answer of session.list.
useSessionsResult(data, statuses) == ListData(SortByUpdatedDesc(data), statuses)

\* useCreateSession onSuccess: the list patch.
useCreateSessionOnSuccess(old, newSession) ==
  IF ~HasData(old) THEN ListData(<<newSession>>, NoStatuses)
  ELSE [old EXCEPT !.sessions = <<newSession>> \o old.sessions]

\* useDeleteSession onSuccess: the list patch.
useDeleteSessionOnSuccess(old, deletedId) ==
  IF ~HasData(old) THEN ListData(<<>>, NoStatuses)
  ELSE [old EXCEPT !.sessions = WithoutId(old.sessions, deletedId)]

\* useUpdateSession onSuccess: the list patch.
useUpdateSessionOnSuccess(old, updatedSession) ==
  IF ~HasData(old) THEN ListData(<<updatedSession>>, NoStatuses)
  ELSE [old EXCEPT !.sessions = ReplaceById(old.sessions, updatedSession)]

\* useShareSession onSuccess: the list patch.
useShareSessionOnSuccess(old, sharedSession) ==
  IF ~HasData(old) THEN ListData(<<sharedSession>>, NoStatuses)
  ELSE [old EXCEPT !.sessions = ReplaceById(old.sessions, sharedSession)]

\* useUnshareSession onSuccess: the list patch.
useUnshareSessionOnSuccess(old, unsharedSession) ==
  IF ~HasData(old) THEN ListData(<<unsharedSession>>, NoStatuses)
  ELSE [old EXCEPT !.sessions = ReplaceById(old.sessions, unsharedSession)]

\* queryUpdaters.updateSession: the list patch.
updateSession(old, session) ==
  IF ~HasData(old) THEN ListData(<<session>>, NoStatuses)
  ELSE [old EXCEPT !.sessions =
          SortByUpdatedDesc(<<session>> \o WithoutId(old.sessions, session.id))]

\* queryUpdaters.removeSession: the list patch.
removeSession(old, sessionId) ==
  IF ~HasData(old) THEN ListData(<<>>, NoStatuses)
  ELSE [old EXCEPT !.sessions = WithoutId(old.sessions, sessionId)]

\* --- the server, as the client's requests and the SSE stream show it
Deleted == 0 - 1
IdOrder == <<"s1", "s2">>
\* The answer of session.list: the sessions that exist, in the server's order.
ServerSessions ==
  SelectSeq([k \in 1..Len(IdOrder) |-> Session(IdOrder[k], srv[IdOrder[k]])],
            LAMBDA x : x.updated > 0)

\* The answer of session.status: the status of each session that exists.
ServerStatuses == [i \in SessionIds |-> IF srv[i] > 0 THEN srvStatus[i] ELSE None]

\* A settled remote call: response.data (Null when the call threw or answered
\* without data), and for a mutation the id it was called with and how many
\* of its calls had failed before.
Response(kind, session, sessions, statuses) ==
  [kind |-> kind, session |-> session, sessions |-> sessions, statuses |-> statuses,
   id |-> None, failureCount |-> 0]
SessionEvent(type, info) == [type |-> type, info |-> info]

\* useSessions' queryFn asks for the list (one fetch of a query at a time).
SessionListRequest ==
  /\ \A r \in resp : r.kind # "list"
  /\ resp' = resp \cup {Response("list", Null, ServerSessions, ServerStatuses)}
  /\ UNCHANGED <<srv, now, evq, listCache, detailCache, listInvalidated>>
  /\ UNCHANGED <<storeVars, chanVars, extraVars>>

\* useCreateSession's mutationFn: the server creates a session, announces it
\* on the stream and answers the request.
CreateSessionRequest(id) ==
  /\ srv[id] = 0
  /\ now < MaxTime
  /\ now' = now + 1
  /\ srv' = [srv EXCEPT ![id] = now + 1]
  /\ evq' = Append(evq, SessionEvent("session.created", Session(id, now + 1)))
  /\ resp' = resp \cup {Response("create", Session(id, now + 1), <<>>, NoStatuses)}
  /\ UNCHANGED <<listCache, detailCache, listInvalidated, storeVars, chanVars, extraVars>>

\* The mutationFn of useUpdateSession, useShareSession or useUnshareSession:
\* the server changes the session, which touches time.updated.
ChangeSessionRequest(kind, id) ==
  /\ srv[id] > 0
  /\ now < MaxTime
  /\ now' = now + 1
  /\ srv' = [srv EXCEPT ![id] = now + 1]
  /\ evq' = Append(evq, SessionEvent("session.updated", Session(id, now + 1)))
  /\ resp' = resp \cup {Response(kind, Session(id, now + 1), <<>>, NoStatuses)}
  /\ UNCHANGED <<listCache, detailCache, listInvalidated, storeVars, chanVars, extraVars>>

\* useDeleteSession's mutationFn.
DeleteSessionRequest(id) ==
  /\ srv[id] > 0
  /\ srv' = [srv EXCEPT ![id] = Deleted]
  /\ evq' = Append(evq, SessionEvent("session.deleted", Session(id, srv[id])))
  /\ resp' = resp \cup {Response("delete", Session(id, srv[id]), <<>>, NoStatuses)}
  /\ UNCHANGED <<now, listCache, detailCache, listInvalidated, storeVars, chanVars, extraVars>>

\* --- the client's handlers
\* The list fetch resolves: the entry is replaced by the queryFn's result.
SessionsFetched(r) ==
  /\ r \in resp /\ r.kind = "list"
  /\ resp' = resp \ {r}
  /\ listCache' = useSessionsResult(r.sessions, r.statuses)
  /\ listInvalidated' = FALSE
  /\ UNCHANGED <<srv, now, evq, detailCache, storeVars, chanVars, extraVars>>

CreateSucceeded(r) ==
  /\ r \in resp /\ r.kind = "create" /\ r.session # Null
  /\ resp' = resp \ {r}
  /\ listCache' = useCreateSessionOnSuccess(listCache, r.session)
  /\ UNCHANGED <<srv, now, evq, detailCache, listInvalidated, storeVars, chanVars, extraVars>>

DeleteSucceeded(r) ==
  /\ r \in resp /\ r.kind = "delete" /\ r.session # Null
  /\ resp' = resp \ {r}
  /\ listCache' = useDeleteSessionOnSuccess(listCache, r.session.id)
  /\ UNCHANGED <<srv, now, evq, detailCache, listInvalidated, storeVars, chanVars, extraVars>>

UpdateSucceeded(r) ==
  /\ r \in resp /\ r.kind = "update" /\ r.session # Null
  /\ resp' = resp \ {r}
  /\ listCache' = useUpdateSessionOnSuccess(listCache, r.session)
  /\ detailCache' = [detailCache EXCEPT ![r.session.id] = r.session]
  /\ UNCHANGED <<srv, now, evq, listInvalidated, storeVars, chanVars, extraVars>>

ShareSucceeded(r) ==
  /\ r \in resp /\ r.kind = "share" /\ r.session # Null
  /\ resp' = resp \ {r}
  /\ listCache' = useShareSessionOnSuccess(listCache, r.session)
  /\ detailCache' = [detailCache EXCEPT ![r.session.id] = r.session]
  /\ UNCHANGED <<srv, now, evq, listInvalidated, storeVars, chanVars, extraVars>>

UnshareSucceeded(r) ==
  /\ r \in resp /\ r.kind = "unshare" /\ r.session # Null
  /\ resp' = resp \ {r}
  /\ listCache' = useUnshareSessionOnSuccess(listCache, r.session)
  /\ detailCache' = [detailCache EXCEPT ![r.session.id] = r.session]
  /\ UNCHANGED <<srv, now, evq, listInvalidated, storeVars, chanVars, extraVars>>

\* handleEvent, case "session.created" / "session.updated".
SessionUpdated ==
  /\ evq # <<>>
  /\ Head(evq).type \in {"session.created", "session.updated"}
  /\ evq' = Tail(evq)
  /\ listCache' = updateSession(listCache, Head(evq).info)
  /\ detailCache' = [detailCache EXCEPT ![Head(evq).info.id] = Head(evq).info]
  /\ UNCHANGED <<srv, now, resp, listInvalidated, storeVars, chanVars, extraVars>>

\* handleEvent, case "session.deleted".
SessionDeleted ==
  /\ evq # <<>>
  /\ Head(evq).type = "session.deleted"
  /\ evq' = Tail(evq)
  /\ listCache' = removeSession(listCache, Head(evq).info.id)
  /\ detailCache' = [detailCache EXCEPT ![Head(evq).info.id] = Absent]
  /\ msgCache' = [msgCache EXCEPT ![Head(evq).info.id] = Absent]
  /\ UNCHANGED <<srv, now, resp, listInvalidated, chanVars>>
  /\ UNCHANGED <<route, currentSession, sessionTokenCounts, pending, qpending, visit>>
  /\ UNCHANGED extraVars

\* ------------------------------------------------------------------ session status
MaxQueue == 2

InitStatus ==
  /\ sessionStatuses = NoStatuses
  /\ srvStatus = [i \in SessionIds |-> Idle]

\* updateStatusFromEvent: sessionStatuses.
updateStatusFromEventStatuses(statuses, sessionId, status) ==
  [statuses EXCEPT ![sessionId] = status]

\* updateStatusFromEvent: currentSession.
updateStatusFromEvent(cs, sessionId, status) ==
  IF IsCurrent(cs, sessionId) THEN [cs EXCEPT !.status = status] ELSE cs

\* queryUpdaters.updateStatus, as a bug would write it: one status for all.
updateStatusEverySession(old, sessionId, status) ==
  ListData(IF HasData(old) THEN old.sessions ELSE <<>>,
           [i \in SessionIds |-> status])

\* queryUpdaters.updateStatus: the list patch.
updateStatus(old, sessionId, status) ==
  IF ~HasData(old)
    THEN ListData(<<>>, [NoStatuses EXCEPT ![sessionId] = status])
    ELSE [old EXCEPT !.statuses = [@ EXCEPT ![sessionId] = status]]

\* queryUpdaters.updateStatus, as it would read if the messages entry kept
\* its status.
updateStatusMessagesKept(old, status) ==
  IF ~HasData(old) THEN Null ELSE old

\* queryUpdaters.updateStatus: the messages patch.
updateStatusMessages(old, status) ==
  IF ~HasData(old) THEN Null ELSE [old EXCEPT !.status = status]

\* What handleEvent does with a status, for both kinds of event.
ApplyStatus(sessionId, status) ==
  /\ sessionStatuses' = updateStatusFromEventStatuses(sessionStatuses, sessionId, status)
  /\ currentSession' = updateStatusFromEvent(currentSession, sessionId, status)
  /\ listCache' = updateStatus(listCache, sessionId, status)
  /\ msgCache' = [msgCache EXCEPT ![sessionId] = updateStatusMessages(@, status)]
  /\ evq' = Tail(evq)
  /\ UNCHANGED <<route, sessionTokenCounts, pending, qpending, visit>>
  /\ UNCHANGED <<srv, now, resp, detailCache, listInvalidated, srvStatus, chanVars>>
  /\ UNCHANGED afterStatus

\* A session starts or stops working on the server, which says so on the
\* stream: session.status, and for idle either that or session.idle.
StatusChange(id, status, type) ==
  /\ srv[id] > 0
  /\ srvStatus[id] # status
  /\ type = "session.idle" => status = Idle
  /\ Len(evq) < MaxQueue
  /\ srvStatus' = [srvStatus EXCEPT ![id] = status]
  /\ evq' = Append(evq, SessionEvent(type,
              [sessionID |-> id,
               status |-> IF type = "session.idle" THEN None ELSE status]))
  /\ UNCHANGED <<srv, now, resp, listCache, detailCache, listInvalidated>>
  /\ UNCHANGED <<sessionStatuses, storeVars, chanVars, afterStatus>>

\* handleEvent, case "session.status".
SessionStatusEvent ==
  /\ evq # <<>>
  /\ Head(evq).type = "session.status"
  /\ ApplyStatus(Head(evq).info.sessionID, Head(evq).info.status)

\* handleEvent, case "session.idle", as it would read if it patched the
\* query cache only.
SessionIdleEventCacheOnly ==
  /\ evq # <<>>
  /\ Head(evq).type = "session.idle"
  /\ listCache' = updateStatus(listCache, Head(evq).info.sessionID, Idle)
  /\ msgCache' = [msgCache EXCEPT ![Head(evq).info.sessionID] =
                    updateStatusMessages(@, Idle)]
  /\ evq' = Tail(evq)
  /\ UNCHANGED <<sessionStatuses, currentSession>>
  /\ UNCHANGED <<route, sessionTokenCounts, pending, qpending, visit>>
  /\ UNCHANGED <<srv, now, resp, detailCache, listInvalidated, srvStatus, chanVars>>
  /\ UNCHANGED afterStatus

\* handleEvent, case "session.idle".
SessionIdleEvent ==
  /\ evq # <<>>
  /\ Head(evq).type = "session.idle"
  /\ ApplyStatus(Head(evq).info.sessionID, Idle)

\* ------------------------------------------------------------------ mutations: failure and retry
\* defaultOptions.mutations.retry
MutationRetry == 1

HookKinds == {"create", "delete", "update", "share", "unshare", "prompt", "abort"}
PlainKinds == {"prompt", "abort"}
StoreKinds ==
  {"store.create", "store.delete", "store.update", "store.share", "store.unshare"}

InitMutation ==
  /\ storeSessions = <<>>
  /\ req = {}
  /\ rejected = {}

\* The remote call for id threw or answered without data, after n failures.
FailedResponse(kind, id, n) ==
  [Response(kind, Null, <<>>, NoStatuses) EXCEPT !.id = id, !.failureCount = n]

\* useSendPrompt / useAbortSession: mutate() and a remote call that succeeds.
PlainRequest(kind, id) ==
  /\ kind \in PlainKinds
  /\ srv[id] > 0
  /\ resp' = resp \cup {Response(kind, Session(id, srv[id]), <<>>, NoStatuses)}
  /\ UNCHANGED <<srv, now, evq, listCache, detailCache, listInvalidated>>
  /\ UNCHANGED <<storeVars, chanVars, extraVars>>

\* They have no onSuccess: nothing is patched.
PlainSucceeded(r) ==
  /\ r \in resp /\ r.kind \in PlainKinds /\ r.session # Null
  /\ resp' = resp \ {r}
  /\ UNCHANGED <<srv, now, evq, listCache, detailCache, listInvalidated>>
  /\ UNCHANGED <<storeVars, chanVars, extraVars>>

\* mutate() of a hook, and a first remote call that throws or has no data.
MutationCallFails(kind, id) ==
  /\ kind \in HookKinds
  /\ resp' = resp \cup {FailedResponse(kind, id, 0)}
  /\ UNCHANGED <<srv, now, evq, listCache, detailCache, listInvalidated>>
  /\ UNCHANGED <<storeVars, chanVars, extraVars>>

\* The mutationFn rejected: the mutation is retried while fewer than
\* MutationRetry of its calls have failed, else rejected to the caller; no
\* onSuccess runs.
MutationFailed(r) ==
  /\ r \in resp /\ r.kind \in HookKinds /\ r.session = Null
  /\ resp' = resp \ {r}
  /\ IF r.failureCount < MutationRetry
       THEN /\ req' = req \cup {[kind |-> r.kind, id |-> r.id,
                                failureCount |-> r.failureCount + 1]}
            /\ rejected' = rejected
       ELSE /\ req' = req
            /\ rejected' = rejected \cup {[kind |-> r.kind, id |-> r.id,
                                          calls |-> r.failureCount + 1]}
  /\ UNCHANGED <<srv, now, evq, listCache, detailCache, listInvalidated>>
  /\ UNCHANGED <<storeVars, chanVars, statusVars, legacyVars, afterMut>>

\* The retried call fails as well.
RetryCallFails(q) ==
  /\ q \in req
  /\ req' = req \ {q}
  /\ resp' = resp \cup {FailedResponse(q.kind, q.id, q.failureCount)}
  /\ UNCHANGED <<srv, now, evq, listCache, detailCache, listInvalidated, rejected>>
  /\ UNCHANGED <<storeVars, chanVars, statusVars, legacyVars, afterMut>>

\* The retried call succeeds: the server does what the first call asked for.
RetryCallSucceeds(q) ==
  /\ q \in req
  /\ req' = req \ {q}
  /\ \/ /\ q.kind = "create"
        /\ srv[q.id] = 0 /\ now < MaxTime
        /\ now' = now + 1
        /\ srv' = [srv EXCEPT ![q.id] = now + 1]
        /\ evq' = Append(evq, SessionEvent("session.created", Session(q.id, now + 1)))
     \/ /\ q.kind \in {"update", "share", "unshare"}
        /\ srv[q.id] > 0 /\ now < MaxTime
        /\ now' = now + 1
        /\ srv' = [srv EXCEPT ![q.id] = now + 1]
        /\ evq' = Append(evq, SessionEvent("session.updated", Session(q.id, now + 1)))
     \/ /\ q.kind = "delete"
        /\ srv[q.id] > 0
        /\ srv' = [srv EXCEPT ![q.id] = Deleted]
        /\ evq' = Append(evq, SessionEvent("session.deleted", Session(q.id, srv[q.id])))
        /\ now' = now
     \/ /\ q.kind \in PlainKinds
        /\ srv[q.id] > 0
        /\ UNCHANGED <<srv, now, evq>>
  /\ resp' = resp \cup
       {[Response(q.kind,
                  Session(q.id, IF q.kind \in PlainKinds \cup {"delete"}
                                  THEN srv[q.id] ELSE now + 1),
                  <<>>, NoStatuses)
           EXCEPT !.id = q.id, !.failureCount = q.failureCount]}
  /\ UNCHANGED <<listCache, detailCache, listInvalidated, rejected>>
  /\ UNCHANGED <<storeVars, chanVars, statusVars, legacyVars, afterMut>>

\* ------------------------------------------------------------------ sessions store: mutations
\* createSession, as a bug would write it: patched whatever the answer.
createSessionSetUnconfirmed(list, data) == <<data>> \o list

\* createSession: sessions after the answer (response.data or nothing).
createSessionSet(list, data) ==
  IF data # Null THEN <<data>> \o list ELSE list

\* deleteSession: sessions and currentSession after the answer.
deleteSessionSet(list, data) ==
  IF data # Null THEN WithoutId(list, data.id) ELSE list
deleteSessionCurrent(cs, data) ==
  IF data # Null /\ IsCurrent(cs, data.id) THEN Null ELSE cs

\* updateSession (the store's): sessions and currentSession after the answer.
updateSessionSet(list, data) ==
  IF data # Null THEN ReplaceById(list, data) ELSE list
updateSessionCurrent(cs, data) ==
  IF data # Null /\ IsCurrent(cs, data.id) THEN [cs EXCEPT !.session = data] ELSE cs

\* updateSessionFromEvent: sessions and currentSession.
updateSessionFromEvent(list, session) ==
  SortByUpdatedDesc(<<session>> \o WithoutId(list, session.id))
updateSessionFromEventCurrent(cs, session) ==
  IF IsCurrent(cs, session.id) THEN [cs EXCEPT !.session = session] ELSE cs

\* The remote call of createSession, answered with the new session.
StoreCreateRequest(id) ==
  /\ srv[id] = 0
  /\ now < MaxTime
  /\ now' = now + 1
  /\ srv' = [srv EXCEPT ![id] = now + 1]
  /\ evq' = Append(evq, SessionEvent("session.created", Session(id, now + 1)))
  /\ resp' = resp \cup {Response("store.create", Session(id, now + 1), <<>>, NoStatuses)}
  /\ UNCHANGED <<listCache, detailCache, listInvalidated, storeVars, chanVars, extraVars>>

\* The remote call of deleteSession, answered.
StoreDeleteRequest(id) ==
  /\ srv[id] > 0
  /\ srv' = [srv EXCEPT ![id] = Deleted]
  /\ evq' = Append(evq, SessionEvent("session.deleted", Session(id, srv[id])))
  /\ resp' = resp \cup {Response("store.delete", Session(id, srv[id]), <<>>, NoStatuses)}
  /\ UNCHANGED <<now, listCache, detailCache, listInvalidated, storeVars, chanVars, extraVars>>

\* The remote call of one of the store's mutations throws or has no data.
StoreCallFails(kind, id) ==
  /\ kind \in StoreKinds
  /\ resp' = resp \cup {FailedResponse(kind, id, 0)}
  /\ UNCHANGED <<srv, now, evq, listCache, detailCache, listInvalidated>>
  /\ UNCHANGED <<storeVars, chanVars, extraVars>>

\* What the store's mutations leave alone when their call settles.
StoreSettles(r) ==
  /\ r \in resp
  /\ resp' = resp \ {r}
  /\ UNCHANGED <<srv, now, evq, listCache, detailCache, listInvalidated>>
  /\ UNCHANGED <<route, sessionTokenCounts, pending, msgCache, qpending, visit>>
  /\ UNCHANGED <<chanVars, statusVars, afterLegacy>>

\* createSession after its await.
StoreCreateDone(r) ==
  /\ r.kind = "store.create"
  /\ StoreSettles(r)
  /\ storeSessions' = createSessionSet(storeSessions, r.session)
  /\ UNCHANGED currentSession

\* deleteSession after its await.
StoreDeleteDone(r) ==
  /\ r.kind = "store.delete"
  /\ StoreSettles(r)
  /\ storeSessions' = deleteSessionSet(storeSessions, r.session)
  /\ currentSession' = deleteSessionCurrent(currentSession, r.session)

\* updateSession after its await.
StoreUpdateDone(r) ==
  /\ r.kind = "store.update"
  /\ StoreSettles(r)
  /\ storeSessions' = updateSessionSet(storeSessions, r.session)
  /\ currentSession' = updateSessionCurrent(currentSession, r.session)

\* shareSession / unshareSession after their await.
StoreShareDone(r) ==
  /\ r.kind \in {"store.share", "store.unshare"}
  /\ StoreSettles(r)
  /\ IF r.session # Null
       THEN /\ storeSessions' = updateSessionFromEvent(storeSessions, r.session)
            /\ currentSession' = updateSessionFromEventCurrent(currentSession, r.session)
       ELSE UNCHANGED <<storeSessions, currentSession>>

\* ------------------------------------------------------------------ permissions store
MaxResponds == 2

PermissionIds == {"p1", "p2"}
PermissionTitles == {"edit", "bash"}

\* A Permission as the server sends it; the empty id stands for an event
\* without one.
Permission(id, title) == [id |-> id, sessionID |-> "s1", title |-> title]

InitPermissions ==
  /\ pendingPermissions = <<>>
  /\ permCalls = {}
  /\ permResults = {}

\* Everything outside the permissions store and the event stream.
notPermissions ==
  <<storeVars, chanVars, srv, now, resp, listCache, detailCache,
    listInvalidated, statusVars, legacyVars, mutVars, afterPerm>>

\* addPermission, as a store without the duplicate check would write it.
addPermissionNoCheck(queue, permission) == Append(queue, permission)

\* addPermission
addPermission(queue, permission) ==
  IF \E k \in 1..Len(queue) : queue[k].id = permission.id
    THEN queue
    ELSE Append(queue, permission)

HasOtherId(p, permissionId) == p.id # permissionId

\* removePermission
removePermission(queue, permissionId) ==
  SelectSeq(queue, LAMBDA p : HasOtherId(p, permissionId))

\* respondToPermission after its await, as an optimistic store would write
\* it: the entry goes whatever the server said.
respondToPermissionSetAlways(queue, permissionId, outcome) ==
  removePermission(queue, permissionId)

\* respondToPermission after its await: the queue.
respondToPermissionSet(queue, permissionId, outcome) ==
  IF outcome = "data" THEN removePermission(queue, permissionId) ELSE queue

\* respondToPermission: the value it resolves to.
respondToPermissionReturn(outcome) == outcome = "data"

RespondOutcomes == {"data", "nodata", "throws"}

\* The server asks for a permission (again, or with another title), or
\* sends the event without an id.
PermissionAsked(id, title) ==
  /\ Len(evq) < MaxQueue
  /\ evq' = Append(evq, SessionEvent("permission.updated", Permission(id, title)))
  /\ UNCHANGED <<permVars, notPermissions>>

\* The server announces that a permission was answered.
PermissionAnswered(id) ==
  /\ Len(evq) < MaxQueue
  /\ evq' = Append(evq, SessionEvent("permission.replied", [permissionID |-> id]))
  /\ UNCHANGED <<permVars, notPermissions>>

\* handleEvent, case "permission.updated".
PermissionUpdatedEvent ==
  /\ evq # <<>>
  /\ Head(evq).type = "permission.updated"
  /\ evq' = Tail(evq)
  /\ pendingPermissions' =
       IF Head(evq).info.id # ""
         THEN addPermission(pendingPermissions, Head(evq).info)
         ELSE pendingPermissions
  /\ UNCHANGED <<permCalls, permResults, notPermissions>>

\* handleEvent, case "permission.replied".
PermissionRepliedEvent ==
  /\ evq # <<>>
  /\ Head(evq).type = "permission.replied"
  /\ evq' = Tail(evq)
  /\ pendingPermissions' =
       IF Head(evq).info.permissionID # ""
         THEN removePermission(pendingPermissions, Head(evq).info.permissionID)
         ELSE pendingPermissions
  /\ UNCHANGED <<permCalls, permResults, notPermissions>>

RespondsSoFar == Cardinality(permCalls) + Cardinality(permResults)

\* respondToPermission up to its await: without a client or a project it
\* returns false at once, otherwise the call goes to the server.
RespondToPermission(id, connected) ==
  /\ RespondsSoFar < MaxResponds
  /\ IF connected
       THEN /\ permCalls' = permCalls \cup {[n |-> RespondsSoFar + 1, id |-> id]}
            /\ UNCHANGED permResults
       ELSE /\ permResults' = permResults \cup
                 {[n |-> RespondsSoFar + 1, id |-> id, outcome |-> "noclient",
                   returned |-> FALSE]}
            /\ UNCHANGED permCalls
  /\ UNCHANGED <<pendingPermissions, evq, notPermissions>>

\* respondToPermission after its await: the server confirmed (data), answered
\* without data, or the call threw.
RespondSettles(c, outcome) ==
  /\ c \in permCalls
  /\ permCalls' = permCalls \ {c}
  /\ pendingPermissions' = respondToPermissionSet(pendingPermissions, c.id, outcome)
  /\ permResults' = permResults \cup
       {[n |-> c.n, id |-> c.id, outcome |-> outcome,
         returned |-> respondToPermissionReturn(outcome)]}
  /\ UNCHANGED <<evq, notPermissions>>

\* ------------------------------------------------------------------ PermissionHandler
\* useState(null)
NoPermission == [id |-> "", sessionID |-> "", title |-> ""]

InitHandler == currentPermission = NoPermission

\* Everything outside the permissions store, the event stream and the
\* handler.
notHandler ==
  <<storeVars, chanVars, srv, now, resp, listCache, detailCache,
    listInvalidated, statusVars, legacyVars, mutVars, scopeVars, frameVars,
    serverVars, storageVars, selVars, invVars, asyncVars, afterHandler>>

\* The effect of PermissionHandler has something to do.
ShowDue == pendingPermissions # <<>> /\ currentPermission = NoPermission

\* PermissionHandler's effect: with nothing shown, the first pending
\* permission is shown.
ShowPermission ==
  /\ ShowDue
  /\ currentPermission' = pendingPermissions[1]
  /\ UNCHANGED <<permVars, evq, notHandler>>

\* handleClose, from the modal's onRequestClose.
HandleClose ==
  /\ currentPermission # NoPermission
  /\ currentPermission' = NoPermission
  /\ UNCHANGED <<permVars, evq, notHandler>>

\* handleResponse of the modal up to the await of respondToPermission;
\* without a client or a project that returns false at once and onClose
\* runs.
HandleResponse(connected) ==
  /\ currentPermission # NoPermission
  /\ RespondsSoFar < MaxResponds
  /\ IF connected
       THEN /\ permCalls' = permCalls \cup
                 {[n |-> RespondsSoFar + 1, id |-> currentPermission.id]}
            /\ UNCHANGED <<permResults, currentPermission>>
       ELSE /\ permResults' = permResults \cup
                 {[n |-> RespondsSoFar + 1, id |-> currentPermission.id,
                   outcome |-> "noclient", returned |-> FALSE]}
            /\ currentPermission' = NoPermission
            /\ UNCHANGED permCalls
  /\ UNCHANGED <<pendingPermissions, evq, notHandler>>

\* handleResponse after respondToPermission: the store is set as the
\* server's answer says, then onClose runs.
HandleResponseSettles(c, outcome) ==
  /\ c \in permCalls
  /\ permCalls' = permCalls \ {c}
  /\ pendingPermissions' = respondToPermissionSet(pendingPermissions, c.id, outcome)
  /\ permResults' = permResults \cup
       {[n |-> c.n, id |-> c.id, outcome |-> outcome,
         returned |-> respondToPermissionReturn(outcome)]}
  /\ currentPermission' = NoPermission
  /\ UNCHANGED <<evq, notHandler>>

\* ------------------------------------------------------------------ selected agent
Agent(name, mode) == [name |-> name, mode |-> mode]

\* DEFAULT_AGENTS
DefaultAgents == <<Agent("build", "primary"), Agent("plan", "primary")>>

\* What app.agents() can answer with.
AgentLists ==
  {DefaultAgents,
   <<Agent("plan", "primary"), Agent("general", "subagent"), Agent("build", "primary")>>,
   <<Agent("general", "subagent")>>}

\* agents.filter((a) => a.mode === "primary")
IsPrimary(a) == a.mode = "primary"
primaryAgents(agents) == SelectSeq(agents, IsPrimary)

HasAgent(list, name) == \E k \in 1..Len(list) : list[k].name = name

\* findIndex, counted from 0; -1 when there is none.
findIndex(list, name) ==
  IF HasAgent(list, name)
    THEN (CHOOSE k \in 1..Len(list) :
            /\ list[k].name = name
            /\ \A j \in 1..(k - 1) : list[j].name # name) - 1
    ELSE -1

\* primaryAgents[0]?.name ?? "build"
firstPrimary(primary) == IF primary = <<>> THEN "build" ELSE primary[1].name

\* useSelectedAgent: getEffectiveSelectedAgent; None stands for a query
\* without data.
getEffectiveSelectedAgent(data, agents) ==
  LET savedAgent == IF data = None THEN "build" ELSE data
  IN IF HasAgent(primaryAgents(agents), savedAgent)
       THEN savedAgent
       ELSE firstPrimary(primaryAgents(agents))

\* cycleAgent: the agent it goes to from selected; the list has a primary
\* agent.
nextAgent(primary, selected, direction) ==
  LET nextIndex == findIndex(primary, selected) + direction
      wrapped == IF nextIndex < 0 THEN Len(primary) - 1
                 ELSE IF nextIndex >= Len(primary) THEN 0 ELSE nextIndex
  IN primary[wrapped + 1].name

\* Nothing is saved; the hook has its default agents, the store none and
\* "build" selected.
InitAgents ==
  /\ agentSaved = None
  /\ agentQuery = None
  /\ agentsData = DefaultAgents
  /\ storeAgents = <<>>
  /\ storeAgent = "build"

\* Everything outside the agents.
notAgents ==
  <<storeVars, chanVars, listVars, statusVars, legacyVars, mutVars, permVars,
    scopeVars, frameVars, serverVars, storageVars, selVars, invVars, asyncVars,
    handlerVars>>

\* The ["selectedAgent"] query resolves; with staleTime Infinity it is
\* not fetched again.
SelectedAgentLoaded ==
  /\ agentQuery = None
  /\ agentQuery' = IF agentSaved = None THEN "build" ELSE agentSaved
  /\ UNCHANGED <<agentSaved, agentsData, storeAgents, storeAgent, notAgents>>

\* useAgents resolves.
AgentsLoaded(list) ==
  /\ agentsData' = list
  /\ UNCHANGED <<agentSaved, agentQuery, storeAgents, storeAgent, notAgents>>

\* useSelectedAgent: setSelectedAgent.
HookSetSelectedAgent(name) ==
  /\ agentSaved' = name
  /\ UNCHANGED <<agentQuery, agentsData, storeAgents, storeAgent, notAgents>>

\* useSelectedAgent: cycleAgent.
HookCycleAgent(direction) ==
  /\ primaryAgents(agentsData) # <<>>
  /\ agentSaved' = nextAgent(primaryAgents(agentsData),
                     getEffectiveSelectedAgent(agentQuery, agentsData), direction)
  /\ UNCHANGED <<agentQuery, agentsData, storeAgents, storeAgent, notAgents>>

\* agents store: fetchAgents with an answer; a selection that is no
\* primary agent of it is reset through setSelectedAgent.
StoreFetchAgents(list) ==
  /\ storeAgents' = list
  /\ IF HasAgent(primaryAgents(list), storeAgent)
       THEN UNCHANGED <<storeAgent, agentSaved>>
       ELSE /\ storeAgent' = firstPrimary(primaryAgents(list))
            /\ agentSaved' = firstPrimary(primaryAgents(list))
  /\ UNCHANGED <<agentQuery, agentsData, notAgents>>

\* agents store: setSelectedAgent.
StoreSetSelectedAgent(name) ==
  /\ storeAgent' = name
  /\ agentSaved' = name
  /\ UNCHANGED <<agentQuery, agentsData, storeAgents, notAgents>>

\* agents store: loadSelectedAgent.
StoreLoadSelectedAgent ==
  /\ storeAgent' = IF agentSaved = None THEN storeAgent ELSE agentSaved
  /\ UNCHANGED <<agentSaved, agentQuery, agentsData, storeAgents, notAgents>>

\* agents store: cycleAgent.
StoreCycleAgent(direction) ==
  /\ primaryAgents(storeAgents) # <<>>
  /\ storeAgent' = nextAgent(primaryAgents(storeAgents), storeAgent, direction)
  /\ agentSaved' = storeAgent'
  /\ UNCHANGED <<agentQuery, agentsData, storeAgents, notAgents>>

\* ------------------------------------------------------------------ scope: (server url, project path)
MaxScopeFetch == 3

Pairs == [url : ServerUrls, path : ProjectPaths]

\* queryKeys.sessions.list(serverUrl, projectPath)
ListKeys == {sessionsListKey(p.url, p.path) : p \in Pairs}

\* Everything outside the scope section.
notScope ==
  <<storeVars, chanVars, listVars, statusVars, legacyVars, mutVars, permVars,
    afterScope>>

\* The app is connected to u1 with project p1; nothing is cached yet.
InitScope ==
  /\ activePair = [url |-> "u1", path |-> "p1"]
  /\ eventPair = activePair
  /\ scopedCache = [k \in ListKeys |-> {}]
  /\ scopedStore = {}
  /\ scopeFetch = {}

\* useSessions: the query of the rendered pair, fetched with that pair's
\* client and directory.
useSessionsFetch(pair) ==
  [via |-> "query", key |-> sessionsListKey(pair.url, pair.path), from |-> pair]

\* fetchSessions of the sessions store: the client and directory are read
\* from the servers store when it is called.
fetchSessionsCall(pair) ==
  [via |-> "store", key |-> <<>>, from |-> pair]

\* Both session lists ask for the sessions of the active pair.
StartFetches(pair) ==
  scopeFetch' = scopeFetch \cup {useSessionsFetch(pair), fetchSessionsCall(pair)}

\* The active server or project changes: the hooks render with the new
\* pair, the event connection is closed and reopened for it, and both
\* session lists fetch.
ScopeChange(p) ==
  /\ p # activePair
  /\ Cardinality(scopeFetch) + 2 <= MaxScopeFetch
  /\ activePair' = p
  /\ eventPair' = p
  /\ StartFetches(p)
  /\ UNCHANGED <<scopedCache, scopedStore, notScope>>

\* Pull to refresh on the session lists.
ScopeRefresh ==
  /\ Cardinality(scopeFetch) + 2 <= MaxScopeFetch
  /\ StartFetches(activePair)
  /\ UNCHANGED <<activePair, eventPair, scopedCache, scopedStore, notScope>>

\* A fetch answers: the query cache writes the entry of the query's key, the
\* sessions store writes its one sessions / sessionStatuses slot.
ScopeFetchDone(r) ==
  /\ r \in scopeFetch
  /\ scopeFetch' = scopeFetch \ {r}
  /\ IF r.via = "query"
       THEN /\ scopedCache' = [scopedCache EXCEPT ![r.key] = {r.from}]
            /\ UNCHANGED scopedStore
       ELSE /\ scopedStore' = {r.from}
            /\ UNCHANGED scopedCache
  /\ UNCHANGED <<activePair, eventPair, notScope>>

\* A fetch fails: neither the entry nor the store's sessions change.
ScopeFetchFails(r) ==
  /\ r \in scopeFetch
  /\ scopeFetch' = scopeFetch \ {r}
  /\ UNCHANGED <<activePair, eventPair, scopedCache, scopedStore, notScope>>

\* The key the updaters of useSessionQueryUpdaters write: the pair the
\* handlers were rendered with.
updatersKey(pair) == sessionsListKey(pair.url, pair.path)

\* A session.status event on the open connection: updateStatusFromEvent
\* patches the store, queryUpdaters.updateStatus patches the list entry
\* (creating it when there is none).
ScopeEvent ==
  /\ eventPair \in Pairs
  /\ scopedStore' = scopedStore \cup {eventPair}
  /\ scopedCache' = [scopedCache EXCEPT
                       ![updatersKey(eventPair)] = @ \cup {eventPair}]
  /\ UNCHANGED <<activePair, eventPair, scopeFetch, notScope>>

\* ------------------------------------------------------------------ message listener
\* A frame whose data is not a JSON document.
NotJson == SessionEvent("not json", Null)

\* JSON.parse(event.data) throws.
JSONParseThrows(frame) == frame = NotJson

\* The event types handleEvent has a case for.
HandledTypes ==
  {"session.created", "session.updated", "session.deleted", "session.status",
   "message.updated", "message.part.updated", "todo.updated", "session.idle",
   "permission.updated", "permission.replied"}

InitFrames == dropped = 0

\* The connection the hook holds is open.
LiveConnection ==
  eventSourceRef # 0 /\ sources[eventSourceRef].state = "open"

\* Frames the server writes on the stream.
Frames ==
  {NotJson,
   SessionEvent("server.connected", Null),
   SessionEvent("permission.updated", Permission("p1", "edit")),
   SessionEvent("session.status", [sessionID |-> "s1", status |-> Busy])}

FrameSent(frame) ==
  /\ LiveConnection
  /\ Len(evq) < MaxQueue
  /\ evq' = Append(evq, frame)
  /\ UNCHANGED <<srv, now, resp, listCache, detailCache, listInvalidated>>
  /\ UNCHANGED <<storeVars, chanVars, extraVars>>

\* The listener's catch, as a bug would write it: the stream is given up.
messageListenerCatchCloses(srcs, ref) == closeSource(srcs, ref)

\* The listener's catch: console.error, the source stays as it is.
messageListenerCatch(srcs, ref) == srcs

\* "message" listener, JSON.parse throws: the catch logs and returns.
MalformedFrame ==
  /\ evq # <<>>
  /\ JSONParseThrows(Head(evq))
  /\ evq' = Tail(evq)
  /\ sources' = messageListenerCatch(sources, eventSourceRef)
  /\ dropped' = eventSourceRef
  /\ UNCHANGED <<conn, mounted, eventSourceRef, timers, reconnectTimeoutRef>>
  /\ UNCHANGED <<srv, now, resp, listCache, detailCache, listInvalidated>>
  /\ UNCHANGED <<storeVars, statusVars, legacyVars, mutVars, permVars, scopeVars>>
  /\ UNCHANGED afterFrame

\* handleEvent, default: an event of a type without a case is ignored.
IgnoredEvent ==
  /\ evq # <<>>
  /\ ~JSONParseThrows(Head(evq))
  /\ Head(evq).type \notin HandledTypes
  /\ evq' = Tail(evq)
  /\ UNCHANGED <<srv, now, resp, listCache, detailCache, listInvalidated>>
  /\ UNCHANGED <<storeVars, chanVars, extraVars>>

\* ------------------------------------------------------------------ servers store
MaxServers == 2
MaxConnects == 2

\* Server ids, in the order uuid.v4() hands them out; 0 stands for null.
ServerIds == 1..MaxServers
NoId == 0

\* uuid.v4(): an id no server has had.
uuid(n) == n + 1

\* Urls as the text typed, cut into pieces; the last piece of the second
\* is the trailing slash.
TestUrl == <<"http:", "//", "localhost:4096">>
TestUrlSlash == <<"http:", "//", "localhost:4096", "/">>
UrlInputs == {TestUrl, TestUrlSlash, <<"ftp:", "//", "localhost">>, <<>>}
NameInputs == {"Test", ""}
Versions == {"1.2.3", "1.3.0"}

\* What GET /global/health can come to: a 2xx answer with a version, another
\* status, fetch throwing an Error (whose message may be empty), or throwing
\* something that is no Error.
HealthAnswers ==
  [kind : {"ok"}, status : {200}, version : Versions, message : {None}]
    \cup [kind : {"http"}, status : {404, 500}, version : {None}, message : {None}]
    \cup [kind : {"throws"}, status : {0}, version : {None},
          message : {"Network request failed", ""}]
    \cup [kind : {"nonerror"}, status : {0}, version : {None}, message : {None}]

\* `HTTP ${response.status}`
HttpText(status) == IF status = 404 THEN "HTTP 404" ELSE "HTTP 500"

\* checkServerHealth
checkServerHealth(answer) ==
  IF answer.kind = "throws"
    THEN [healthy |-> FALSE, version |-> None, error |-> answer.message]
  ELSE IF answer.kind = "nonerror"
    THEN [healthy |-> FALSE, version |-> None, error |-> "Unknown error"]
  ELSE IF answer.kind = "http"
    THEN [healthy |-> FALSE, version |-> None, error |-> HttpText(answer.status)]
  ELSE [healthy |-> TRUE, version |-> answer.version, error |-> None]

\* A value the || operator keeps.
Truthy(x) == x # None /\ x # ""

\* url.replace(/\/$/, '')
normalizeUrl(url) ==
  IF url # <<>> /\ url[Len(url)] = "/" THEN SubSeq(url, 1, Len(url) - 1) ELSE url

\* url.startsWith('http')
startsWithHttp(url) == url # <<>> /\ url[1] \in {"http:", "https:"}

ServerConfig(id, name, url) == [id |-> id, name |-> name, url |-> url]

\* The config of a state that was spread from no entry.
NoConfig == [id |-> NoId, name |-> None, url |-> <<>>]

\* { ...state.serverStates[id] } of an id that may have no entry.
SpreadState(st) ==
  IF st = Absent
    THEN [config |-> NoConfig, status |-> None, error |-> None, version |-> None]
    ELSE st

InitServers ==
  /\ servers = <<>>
  /\ serverStates = [i \in ServerIds |-> Absent]
  /\ activeServerId = NoId
  /\ uuids = 0
  /\ calls = {}
  /\ returns = {}

\* Nothing is stored on a fresh install, and no client is cached.
InitStorage ==
  /\ storedServers = <<>>
  /\ storedActiveId = NoId
  /\ storedProjects = [i \in ServerIds |-> None]
  /\ activeProjectPath = None
  /\ projects = <<>>
  /\ clients = {}

\* Everything outside the servers store.
notServers ==
  <<storeVars, chanVars, listVars, statusVars, legacyVars, mutVars, permVars,
    scopeVars, frameVars, afterStorage>>

\* A ServerConfig as JSON.stringify writes it: lastConnectedAt is on the
\* stored entry only once updateServerLastConnected has set it.
Stored(server) ==
  [id |-> server.id, name |-> server.name, url |-> server.url,
   lastConnectedAt |-> None]

HasId(list, id) == \E k \in 1..Len(list) : list[k].id = id

\* storage.saveServer
saveServer(list, server) ==
  IF HasId(list, server.id)
    THEN [k \in 1..Len(list) |->
            IF list[k].id = server.id THEN server ELSE list[k]]
    ELSE Append(list, server)

\* storage.setActiveServerId: removeItem on null, setItem otherwise.
setActiveServerId(id) == id

\* storage.setActiveProjectPath: nothing is touched without a server id.
setActiveProjectPath(stored, serverId, path) ==
  IF serverId = NoId THEN stored ELSE [stored EXCEPT ![serverId] = path]

\* storage.removeServer: the list.
storageRemoveServer(list, id) == SelectSeq(list, LAMBDA sv : HasOtherId(sv, id))

\* storage.removeServer: the active-server key.
storageRemoveServerActive(activeId, id) ==
  IF activeId = id THEN setActiveServerId(NoId) ELSE activeId

\* storage.removeServer: the active-project keys; the call it makes is
\* setActiveProjectPath(null).
storageRemoveServerProjects(stored, activeId, id) ==
  IF activeId = id THEN setActiveProjectPath(stored, NoId, None) ELSE stored

\* storage.updateServerLastConnected
updateServerLastConnected(list, id) ==
  [k \in 1..Len(list) |->
     IF list[k].id = id THEN [list[k] EXCEPT !.lastConnectedAt = "now"]
     ELSE list[k]]

\* addServer: the servers list.
addServerServers(list, server) == Append(list, server)

\* addServer: serverStates.
addServerStates(states, server) ==
  [states EXCEPT ![server.id] =
     [config |-> server, status |-> "disconnected", error |-> None,
      version |-> None]]

\* connectToServer, first set: connecting.
connectToServerConnecting(states, id) ==
  [states EXCEPT ![id] =
     [SpreadState(@) EXCEPT !.status = "connecting", !.error = None]]

\* connectToServer on an unhealthy probe, as it would read without the
\* fallback text.
connectToServerFailureBare(states, id, health) ==
  [states EXCEPT ![id] =
     [SpreadState(@) EXCEPT !.status = "error", !.error = health.error]]

\* connectToServer on an unhealthy probe.
connectToServerFailure(states, id, health) ==
  [states EXCEPT ![id] =
     [SpreadState(@) EXCEPT
        !.status = "error",
        !.error = IF Truthy(health.error) THEN health.error
                  ELSE "Failed to connect"]]

\* connectToServer on a healthy probe, as it would read if the version
\* were not stored.
connectToServerConnectedBare(states, id, health) ==
  [states EXCEPT ![id] =
     [SpreadState(@) EXCEPT !.status = "connected", !.error = None]]

\* connectToServer on a healthy probe.
connectToServerConnected(states, id, health) ==
  [states EXCEPT ![id] =
     [SpreadState(@) EXCEPT
        !.status = "connected", !.version = health.version, !.error = None]]

\* updateServer: the servers list.
updateServerServers(list, updated) ==
  [k \in 1..Len(list) |-> IF list[k].id = updated.id THEN updated ELSE list[k]]

\* updateServer: serverStates.
updateServerStates(states, updated) ==
  [states EXCEPT ![updated.id] = [SpreadState(@) EXCEPT !.config = updated]]

\* The calls counted against MaxConnects: the project listings a call
\* goes on to are part of it.
CallsSoFar ==
  Cardinality({c \in calls : c.op # "projects"}) + Cardinality(returns)
    + Cardinality({k \in 1..Len(storageQueue) :
                     storageQueue[k].op \in {"connect", "activate"}})

NoAnswer == [kind |-> "none", status |-> 0, version |-> None, message |-> None]

Returned(c, answer, value) ==
  [n |-> c.n, id |-> c.id, from |-> c.from, answer |-> answer,
   returned |-> value, threw |-> FALSE]

Threw(c) ==
  [n |-> c.n, id |-> c.id, from |-> c.from, answer |-> NoAnswer,
   returned |-> FALSE, threw |-> TRUE]

\* What project.list() can come to; the empty list also stands for an
\* answer without data and for a throw, which all end in projects: [].
ProjectAnswers == {<<"p1", "p2">>, <<"p2">>, <<>>}

\* connectToServer(id) up to its await, called as number n: an id without
\* a state returns false; a state without a config makes config.url throw
\* after the first set; otherwise the probe goes out.
connectToServerStart(id, n, from) ==
  LET c == [n |-> n, op |-> "connect", id |-> id, url |-> <<>>,
            name |-> None, from |-> from]
  IN IF serverStates[id] = Absent
       THEN /\ returns' = returns \cup {Returned(c, NoAnswer, FALSE)}
            /\ UNCHANGED <<serverStates, calls>>
     ELSE IF serverStates[id].config = NoConfig
       THEN /\ serverStates' = connectToServerConnecting(serverStates, id)
            /\ returns' = returns \cup {Threw(c)}
            /\ UNCHANGED calls
     ELSE /\ serverStates' = connectToServerConnecting(serverStates, id)
          /\ calls' = calls \cup
               {[c EXCEPT !.url = serverStates[id].config.url]}
          /\ UNCHANGED returns

\* refreshProjects goes as far as project.list().
refreshProjectsRuns(states, active) ==
  /\ active # NoId
  /\ states[active] # Absent
  /\ states[active].status = "connected"
  /\ states[active].config # NoConfig

ProjectsCall(c, id, url) ==
  [n |-> c.n, op |-> "projects", id |-> id, url |-> url, name |-> None,
   from |-> c.from]

ConnectToServer(id) ==
  /\ CallsSoFar < MaxConnects
  /\ connectToServerStart(id, CallsSoFar + 1,
       IF serverStates[id] = Absent THEN "unknown"
       ELSE IF serverStates[id].config = NoConfig THEN "noconfig" ELSE "user")
  /\ UNCHANGED <<servers, activeServerId, uuids, storageVars, notServers>>

\* connectToServer after await checkServerHealth: an unhealthy answer is
\* stored and false returned; a healthy one stamps the stored entry, is
\* stored, and starts refreshProjects when the server is the active one.
ConnectProbed(c, answer) ==
  /\ c \in calls /\ c.op = "connect"
  /\ LET health == checkServerHealth(answer)
     IN IF health.healthy
          THEN LET states == connectToServerConnected(serverStates, c.id, health)
               IN /\ serverStates' = states
                  /\ storedServers' = updateServerLastConnected(storedServers, c.id)
                  /\ returns' = returns \cup {Returned(c, answer, TRUE)}
                  /\ IF activeServerId = c.id /\ refreshProjectsRuns(states, c.id)
                       THEN /\ clients' = clients \cup {states[c.id].config.url}
                            /\ calls' = (calls \ {c}) \cup
                                 {ProjectsCall(c, c.id, states[c.id].config.url)}
                       ELSE /\ calls' = calls \ {c}
                            /\ UNCHANGED clients
          ELSE /\ serverStates' = connectToServerFailure(serverStates, c.id, health)
               /\ returns' = returns \cup {Returned(c, answer, FALSE)}
               /\ calls' = calls \ {c}
               /\ UNCHANGED <<storedServers, clients>>
  /\ UNCHANGED <<servers, activeServerId, uuids, storedActiveId, storedProjects,
                 activeProjectPath, projects, notServers>>

\* connectToServer after a healthy probe when the setItem of
\* updateServerLastConnected rejects: the await throws out of
\* connectToServer before the status is set. The write is made only for a
\* server that is in the stored list.
ConnectStorageFailed(c, answer) ==
  /\ c \in calls /\ c.op = "connect"
  /\ checkServerHealth(answer).healthy
  /\ HasId(storedServers, c.id)
  /\ calls' = calls \ {c}
  /\ returns' = returns \cup {Threw(c)}
  /\ UNCHANGED <<servers, serverStates, activeServerId, uuids, storageVars,
                 notServers>>

\* refreshProjects, as it would read if it selected the first project
\* whether or not one is selected.
ProjectsListedAlways(c, data) ==
  /\ c \in calls /\ c.op = "projects"
  /\ calls' = calls \ {c}
  /\ projects' = data
  /\ IF data # <<>>
       THEN /\ storedProjects' =
                 setActiveProjectPath(storedProjects, activeServerId, data[1])
            /\ activeProjectPath' = data[1]
       ELSE UNCHANGED <<storedProjects, activeProjectPath>>
  /\ UNCHANGED <<servers, serverStates, activeServerId, uuids, returns,
                 storedServers, storedActiveId, clients, notServers>>

\* refreshProjects after await client.project.list(): the projects are
\* stored and, when no project is selected, the first one is selected
\* through setActiveProject.
ProjectsListed(c, data) ==
  /\ c \in calls /\ c.op = "projects"
  /\ calls' = calls \ {c}
  /\ projects' = data
  /\ IF activeProjectPath = None /\ data # <<>>
       THEN /\ storedProjects' =
                 setActiveProjectPath(storedProjects, activeServerId, data[1])
            /\ activeProjectPath' = data[1]
       ELSE UNCHANGED <<storedProjects, activeProjectPath>>
  /\ UNCHANGED <<servers, serverStates, activeServerId, uuids, returns,
                 storedServers, storedActiveId, clients, notServers>>

\* addServer(name, url): the server is saved, then stored.
AddServer(name, url) ==
  /\ uuids + Cardinality({c \in calls : c.op = "add"}) < MaxServers
  /\ LET server == ServerConfig(uuid(uuids), name, normalizeUrl(url))
     IN /\ uuids' = uuids + 1
        /\ storedServers' = saveServer(storedServers, Stored(server))
        /\ servers' = addServerServers(servers, server)
        /\ serverStates' = addServerStates(serverStates, server)
  /\ UNCHANGED <<activeServerId, calls, returns, storedActiveId, storedProjects,
                 activeProjectPath, projects, clients, notServers>>

\* handleAdd up to its await: the name and the url are checked, then the
\* health probe for the url goes out.
HandleAdd(name, url) ==
  /\ CallsSoFar < MaxConnects
  /\ uuids + Cardinality({c \in calls : c.op = "add"}) < MaxServers
  /\ IF name = "" \/ url = <<>> \/ ~startsWithHttp(url)
       THEN UNCHANGED calls
       ELSE calls' = calls \cup
              {[n |-> CallsSoFar + 1, op |-> "add", id |-> NoId, url |-> url,
                name |-> name, from |-> "add"]}
  /\ UNCHANGED <<servers, serverStates, activeServerId, uuids, returns,
                 storageVars, notServers>>

\* handleAdd after its probe: on an unhealthy answer it stops; otherwise
\* addServer, which saves the server and then stores it, then
\* setActiveServer with the new id, whose server is not connected yet, so
\* connectToServer runs up to its own probe.
HandleAddProbed(c, answer) ==
  /\ c \in calls /\ c.op = "add"
  /\ IF checkServerHealth(answer).healthy
       THEN LET server == ServerConfig(uuid(uuids), c.name, normalizeUrl(c.url))
            IN /\ uuids' = uuids + 1
               /\ storedServers' = saveServer(storedServers, Stored(server))
               /\ servers' = addServerServers(servers, server)
               /\ storedActiveId' = setActiveServerId(server.id)
               /\ activeProjectPath' = storedProjects[server.id]
               /\ projects' = <<>>
               /\ activeServerId' = server.id
               /\ serverStates' =
                    connectToServerConnecting(
                      addServerStates(serverStates, server), server.id)
               /\ calls' = (calls \ {c}) \cup
                    {[n |-> c.n, op |-> "connect", id |-> server.id,
                      url |-> server.url, name |-> None, from |-> "add"]}
       ELSE /\ calls' = calls \ {c}
            /\ UNCHANGED <<servers, serverStates, activeServerId, uuids,
                           storedServers, storedActiveId, activeProjectPath,
                           projects>>
  /\ UNCHANGED <<returns, storedProjects, clients, notServers>>

\* setActiveServer: the id is saved, the server's saved project read and
\* both stored; then connectToServer runs up to its probe for a server
\* that is not connected, refreshProjects for one that is.
SetActiveServer(id) ==
  /\ CallsSoFar < MaxConnects
  /\ storedActiveId' = setActiveServerId(id)
  /\ activeProjectPath' = IF id = NoId THEN None ELSE storedProjects[id]
  /\ projects' = <<>>
  /\ activeServerId' = id
  /\ IF id = NoId
       THEN UNCHANGED <<serverStates, calls, returns, clients>>
     ELSE IF refreshProjectsRuns(serverStates, id)
       THEN /\ clients' = clients \cup {serverStates[id].config.url}
            /\ calls' = calls \cup
                 {ProjectsCall([n |-> CallsSoFar + 1, from |-> "active"], id,
                               serverStates[id].config.url)}
            /\ UNCHANGED <<serverStates, returns>>
     ELSE IF serverStates[id] # Absent /\ serverStates[id].status = "connected"
       THEN UNCHANGED <<serverStates, calls, returns, clients>>
     ELSE /\ connectToServerStart(id, CallsSoFar + 1, "active")
          /\ UNCHANGED clients
  /\ UNCHANGED <<servers, uuids, storedServers, storedProjects, notServers>>

\* setActiveProject
SetActiveProject(path) ==
  /\ storedProjects' = setActiveProjectPath(storedProjects, activeServerId, path)
  /\ activeProjectPath' = path
  /\ UNCHANGED <<serverVars, storedServers, storedActiveId, projects, clients,
                 notServers>>

\* updateServer(id, { name }): an id that is not in the list returns.
UpdateServer(id, name) ==
  /\ HasId(servers, id)
  /\ LET server == CHOOSE sv \in {servers[k] : k \in 1..Len(servers)} : sv.id = id
         updated == [server EXCEPT !.name = name]
     IN /\ storedServers' = saveServer(storedServers, Stored(updated))
        /\ servers' = updateServerServers(servers, updated)
        /\ serverStates' = updateServerStates(serverStates, updated)
  /\ UNCHANGED <<activeServerId, uuids, calls, returns, storedActiveId,
                 storedProjects, activeProjectPath, projects, clients, notServers>>

\* removeClient(url)
removeClient(cache, url) == cache \ {url}

\* disconnectFromServer
DisconnectFromServer(id) ==
  /\ serverStates[id] # Absent
  /\ clients' = removeClient(clients, serverStates[id].config.url)
  /\ serverStates' =
       [serverStates EXCEPT ![id] =
          [SpreadState(@) EXCEPT !.status = "disconnected", !.error = None]]
  /\ UNCHANGED <<servers, activeServerId, uuids, calls, returns, storedServers,
                 storedActiveId, storedProjects, activeProjectPath, projects,
                 notServers>>

\* removeServer: the client of the server's url is dropped, then
\* storage.removeServer is awaited, then the store is set.
RemoveServer(id) ==
  /\ HasId(servers, id)
  /\ clients' = IF serverStates[id] # Absent
                  THEN removeClient(clients, serverStates[id].config.url)
                  ELSE clients
  /\ storedServers' = storageRemoveServer(storedServers, id)
  /\ storedActiveId' = storageRemoveServerActive(storedActiveId, id)
  /\ storedProjects' = storageRemoveServerProjects(storedProjects, storedActiveId, id)
  /\ servers' = SelectSeq(servers, LAMBDA sv : HasOtherId(sv, id))
  /\ serverStates' = [serverStates EXCEPT ![id] = Absent]
  /\ activeServerId' = IF activeServerId = id THEN NoId ELSE activeServerId
  /\ activeProjectPath' = IF activeServerId = id THEN None ELSE activeProjectPath
  /\ projects' = IF activeServerId = id THEN <<>> ELSE projects
  /\ UNCHANGED <<uuids, calls, returns, notServers>>

\* ------------------------------------------------------------------ servers store, await by await
\* The same operations with each AsyncStorage request as a step of its
\* own. AsyncStorage serves its requests in the order they were made; an
\* operation that awaits one waits in storageQueue and goes on when the
\* request at the head is served.
notStorage ==
  <<storeVars, chanVars, listVars, statusVars, legacyVars, mutVars, permVars,
    scopeVars, frameVars, selVars, invVars, afterAsync>>

\* The operations that wait for AsyncStorage at one time.
MaxStorageOps == 2

NoCall ==
  [n |-> 0, op |-> None, id |-> NoId, url |-> <<>>, name |-> None, from |-> None]

\* An operation at an await of AsyncStorage: what it is, where it is, the
\* server it is about, the list it has read, and for connectToServer the
\* call and the probe's answer.
Task(op, pc, id, server) ==
  [op |-> op, pc |-> pc, id |-> id, server |-> server, read |-> <<>>,
   call |-> NoCall, answer |-> NoAnswer]

\* The operation at the head goes on to its next request.
Requeue(t) == storageQueue' = Append(Tail(storageQueue), t)

\* The operation at the head is over.
Dequeue == storageQueue' = Tail(storageQueue)

AtHead(ops, pc) ==
  /\ storageQueue # <<>>
  /\ storageQueue[1].op \in ops
  /\ storageQueue[1].pc = pc

\* addServer up to the getItem of saveServer.
AddServerCalled(name, url) ==
  /\ uuids < MaxServers
  /\ Len(storageQueue) < MaxStorageOps
  /\ uuids' = uuids + 1
  /\ storageQueue' = Append(storageQueue,
       Task("add", "read", uuid(uuids),
            ServerConfig(uuid(uuids), name, normalizeUrl(url))))
  /\ UNCHANGED <<servers, serverStates, activeServerId, calls, returns,
                 storageVars, notStorage>>

\* updateServer up to the getItem of saveServer.
UpdateServerCalled(id, name) ==
  /\ HasId(servers, id)
  /\ Len(storageQueue) < MaxStorageOps
  /\ LET server == CHOOSE sv \in {servers[k] : k \in 1..Len(servers)} : sv.id = id
     IN storageQueue' = Append(storageQueue,
          Task("update", "read", id, [server EXCEPT !.name = name]))
  /\ UNCHANGED <<serverVars, storageVars, notStorage>>

\* saveServer after getServers: the list is read, setItem is requested.
SaveRead ==
  /\ AtHead({"add", "update"}, "read")
  /\ Requeue([storageQueue[1] EXCEPT !.pc = "write", !.read = storedServers])
  /\ UNCHANGED <<serverVars, storageVars, notStorage>>

\* saveServer's setItem is served with the list that was read, and
\* addServer or updateServer sets the store.
SaveWritten ==
  /\ AtHead({"add", "update"}, "write")
  /\ LET t == storageQueue[1]
     IN /\ storedServers' = saveServer(t.read, Stored(t.server))
        /\ IF t.op = "add"
             THEN /\ servers' = addServerServers(servers, t.server)
                  /\ serverStates' = addServerStates(serverStates, t.server)
             ELSE /\ servers' = updateServerServers(servers, t.server)
                  /\ serverStates' = updateServerStates(serverStates, t.server)
  /\ Dequeue
  /\ UNCHANGED <<activeServerId, uuids, calls, returns, storedActiveId,
                 storedProjects, activeProjectPath, projects, clients, notStorage>>

\* removeServer up to the getItem of storage.removeServer.
RemoveServerCalled(id) ==
  /\ HasId(servers, id)
  /\ Len(storageQueue) < MaxStorageOps
  /\ clients' = IF serverStates[id] # Absent
                  THEN removeClient(clients, serverStates[id].config.url)
                  ELSE clients
  /\ storageQueue' = Append(storageQueue, Task("remove", "read", id, NoConfig))
  /\ UNCHANGED <<serverVars, storedServers, storedActiveId, storedProjects,
                 activeProjectPath, projects, notStorage>>

\* storage.removeServer after getServers.
RemoveRead ==
  /\ AtHead({"remove"}, "read")
  /\ Requeue([storageQueue[1] EXCEPT !.pc = "write", !.read = storedServers])
  /\ UNCHANGED <<serverVars, storageVars, notStorage>>

\* storage.removeServer: setItem is served with the filtered list, then
\* getActiveServerId is requested.
RemoveWritten ==
  /\ AtHead({"remove"}, "write")
  /\ storedServers' = storageRemoveServer(storageQueue[1].read, storageQueue[1].id)
  /\ Requeue([storageQueue[1] EXCEPT !.pc = "active"])
  /\ UNCHANGED <<serverVars, storedActiveId, storedProjects, activeProjectPath,
                 projects, clients, notStorage>>

\* removeServer's set, after storage.removeServer.
removeServerSet(id) ==
  /\ servers' = SelectSeq(servers, LAMBDA sv : HasOtherId(sv, id))
  /\ serverStates' = [serverStates EXCEPT ![id] = Absent]
  /\ activeServerId' = IF activeServerId = id THEN NoId ELSE activeServerId
  /\ activeProjectPath' = IF activeServerId = id THEN None ELSE activeProjectPath
  /\ projects' = IF activeServerId = id THEN <<>> ELSE projects

\* storage.removeServer after getActiveServerId: when the removed server
\* is the stored active one the key's removal is requested, otherwise
\* removeServer sets the store.
RemoveActiveRead ==
  /\ AtHead({"remove"}, "active")
  /\ IF storedActiveId = storageQueue[1].id
       THEN /\ Requeue([storageQueue[1] EXCEPT !.pc = "clear"])
            /\ UNCHANGED <<servers, serverStates, activeServerId,
                           activeProjectPath, projects>>
       ELSE /\ Dequeue
            /\ removeServerSet(storageQueue[1].id)
  /\ UNCHANGED <<uuids, calls, returns, storedServers, storedActiveId,
                 storedProjects, clients, notStorage>>

\* storage.removeServer: the active-server key is removed,
\* setActiveProjectPath(null) returns at once, and removeServer sets the
\* store.
RemoveCleared ==
  /\ AtHead({"remove"}, "clear")
  /\ storedActiveId' = setActiveServerId(NoId)
  /\ storedProjects' = setActiveProjectPath(storedProjects, NoId, None)
  /\ Dequeue
  /\ removeServerSet(storageQueue[1].id)
  /\ UNCHANGED <<uuids, calls, returns, storedServers, clients, notStorage>>

\* connectToServer after await checkServerHealth: an unhealthy answer is
\* stored and false returned; on a healthy one the getItem of
\* updateServerLastConnected is requested.
ConnectProbedThenStorage(c, answer) ==
  /\ c \in calls /\ c.op = "connect"
  /\ Len(storageQueue) < MaxStorageOps
  /\ calls' = calls \ {c}
  /\ LET health == checkServerHealth(answer)
     IN IF health.healthy
          THEN /\ storageQueue' = Append(storageQueue,
                    [Task("connect", "read", c.id, NoConfig) EXCEPT
                       !.call = c, !.answer = answer])
               /\ UNCHANGED <<serverStates, returns>>
          ELSE /\ serverStates' = connectToServerFailure(serverStates, c.id, health)
               /\ returns' = returns \cup {Returned(c, answer, FALSE)}
               /\ UNCHANGED storageQueue
  /\ UNCHANGED <<servers, activeServerId, uuids, storageVars, notStorage>>

\* connectToServer after updateServerLastConnected: connected is set, and
\* refreshProjects runs up to project.list() when the server is the
\* active one.
connectedSet(t) ==
  LET states == connectToServerConnected(serverStates, t.id, checkServerHealth(t.answer))
  IN /\ serverStates' = states
     /\ returns' = returns \cup {Returned(t.call, t.answer, TRUE)}
     /\ IF activeServerId = t.id /\ refreshProjectsRuns(states, t.id)
          THEN /\ clients' = clients \cup {states[t.id].config.url}
               /\ calls' = calls \cup
                    {ProjectsCall(t.call, t.id, states[t.id].config.url)}
          ELSE UNCHANGED <<calls, clients>>

\* updateServerLastConnected after getServers: a server that is in the
\* list is stamped and setItem requested; without it nothing is written.
StampRead ==
  /\ AtHead({"connect"}, "read")
  /\ IF HasId(storedServers, storageQueue[1].id)
       THEN /\ Requeue([storageQueue[1] EXCEPT !.pc = "write", !.read = storedServers])
            /\ UNCHANGED <<serverStates, calls, returns, clients>>
       ELSE /\ Dequeue
            /\ connectedSet(storageQueue[1])
  /\ UNCHANGED <<servers, activeServerId, uuids, storedServers, storedActiveId,
                 storedProjects, activeProjectPath, projects, notStorage>>

\* updateServerLastConnected's setItem is served with the list that was
\* read.
StampWritten ==
  /\ AtHead({"connect"}, "write")
  /\ storedServers' =
       updateServerLastConnected(storageQueue[1].read, storageQueue[1].id)
  /\ Dequeue
  /\ connectedSet(storageQueue[1])
  /\ UNCHANGED <<servers, activeServerId, uuids, storedActiveId, storedProjects,
                 activeProjectPath, projects, notStorage>>

\* setActiveServer up to the request of storage.setActiveServerId.
SetActiveServerCalled(id) ==
  /\ CallsSoFar < MaxConnects
  /\ Len(storageQueue) < MaxStorageOps
  /\ storageQueue' = Append(storageQueue, Task("activate", "save", id, NoConfig))
  /\ UNCHANGED <<serverVars, storageVars, notStorage>>

\* setActiveServer after storage.setActiveServerId: with an id the
\* server's saved project is requested, with null the store is set.
ActiveSaved ==
  /\ AtHead({"activate"}, "save")
  /\ storedActiveId' = setActiveServerId(storageQueue[1].id)
  /\ IF storageQueue[1].id = NoId
       THEN /\ Dequeue
            /\ activeServerId' = NoId
            /\ activeProjectPath' = None
            /\ projects' = <<>>
       ELSE /\ Requeue([storageQueue[1] EXCEPT !.pc = "read"])
            /\ UNCHANGED <<activeServerId, activeProjectPath, projects>>
  /\ UNCHANGED <<servers, serverStates, uuids, calls, returns, storedServers,
                 storedProjects, clients, notStorage>>

\* setActiveServer after storage.getActiveProjectPath: the store is set,
\* then connectToServer runs up to its probe for a server that is not
\* connected, refreshProjects up to project.list() for one that is.
ActiveRead ==
  /\ AtHead({"activate"}, "read")
  /\ Dequeue
  /\ LET id == storageQueue[1].id
     IN /\ activeServerId' = id
        /\ activeProjectPath' = storedProjects[id]
        /\ projects' = <<>>
        /\ IF refreshProjectsRuns(serverStates, id)
             THEN /\ clients' = clients \cup {serverStates[id].config.url}
                  /\ calls' = calls \cup
                       {ProjectsCall([n |-> CallsSoFar, from |-> "active"], id,
                                     serverStates[id].config.url)}
                  /\ UNCHANGED <<serverStates, returns>>
           ELSE IF serverStates[id] # Absent /\ serverStates[id].status = "connected"
             THEN UNCHANGED <<serverStates, calls, returns, clients>>
           ELSE /\ connectToServerStart(id, CallsSoFar, "active")
                /\ UNCHANGED clients
  /\ UNCHANGED <<servers, uuids, storedServers, storedActiveId, storedProjects,
                 notStorage>>

\* ------------------------------------------------------------------ selected model
MaxModels == 2

ProviderIds == {"a", "b"}
ModelNames == {"x", "y"}

\* `${provider.id}/${modelId}`
FullId(providerId, modelId) == <<providerId, "/", modelId>>

ModelIdInputs == {FullId(pr, m) : pr \in ProviderIds, m \in ModelNames}

NoRepeat(seq) == \A j, k \in 1..Len(seq) : seq[j] = seq[k] => j = k

\* What useModels can hold: the models in the order listed, each provider's
\* default model (None: it has none), the connected providers in order.
ModelLists ==
  {l \in UNION {[1..n -> ModelIdInputs] : n \in 0..MaxModels} : NoRepeat(l)}
ProviderLists ==
  {l \in UNION {[1..n -> ProviderIds] : n \in 0..Cardinality(ProviderIds)} :
     NoRepeat(l)}
ModelsDataInputs ==
  [models : {[k \in 1..Len(l) |-> [id |-> l[k]]] : l \in ModelLists},
   defaultModels : [ProviderIds -> ModelNames \cup {None}],
   connectedProviderIds : ProviderLists]

\* modelsData?.models ?? [], and so on, before useModels has data.
NoModelsData ==
  [models |-> <<>>, defaultModels |-> [pr \in ProviderIds |-> None],
   connectedProviderIds |-> <<>>]

\* Saved ids: none, two that can be available, one of a provider that is gone.
SavedInputs == {<<>>, FullId("a", "x"), FullId("b", "y"), FullId("c", "x")}

\* models.some((m) => m.id === id)
someModel(models, id) == \E k \in 1..Len(models) : models[k].id = id

\* getEffectiveSelectedModel's loop over connectedProviderIds, from the
\* k-th on; <<>> when it ends without returning.
RECURSIVE defaultOfConnected(_, _)
defaultOfConnected(data, k) ==
  IF k > Len(data.connectedProviderIds) THEN <<>>
  ELSE LET providerId == data.connectedProviderIds[k]
           defaultModelForProvider == data.defaultModels[providerId]
       IN IF defaultModelForProvider # None
               /\ someModel(data.models, FullId(providerId, defaultModelForProvider))
            THEN FullId(providerId, defaultModelForProvider)
            ELSE defaultOfConnected(data, k + 1)

\* getEffectiveSelectedModel, as it would read without the provider
\* defaults.
getEffectiveSelectedModelNoDefaults(saved, data) ==
  IF saved # <<>> /\ someModel(data.models, saved) THEN saved
  ELSE IF data.models # <<>> THEN data.models[1].id ELSE <<>>

\* getEffectiveSelectedModel; <<>> stands for null.
getEffectiveSelectedModel(saved, data) ==
  IF saved # <<>> /\ someModel(data.models, saved) THEN saved
  ELSE IF defaultOfConnected(data, 1) # <<>> THEN defaultOfConnected(data, 1)
  ELSE IF data.models # <<>> THEN data.models[1].id ELSE <<>>

InitSelected ==
  /\ savedModel = <<>>
  /\ modelsData = NoModelsData
  /\ selectedModel = <<>>

notSelected ==
  <<storeVars, chanVars, listVars, statusVars, legacyVars, mutVars, permVars,
    scopeVars, frameVars, serverVars, storageVars, afterSel>>

\* The selectedModel query resolves with what AsyncStorage holds, and the
\* hook renders.
SavedModelLoaded(saved) ==
  /\ savedModel' = saved
  /\ selectedModel' = getEffectiveSelectedModel(saved, modelsData)
  /\ UNCHANGED <<modelsData, notSelected>>

\* useModels resolves, and the hook renders.
ModelsLoaded(data) ==
  /\ modelsData' = data
  /\ selectedModel' = getEffectiveSelectedModel(savedModel, data)
  /\ UNCHANGED <<savedModel, notSelected>>

\* The state the later sections add, as the app starts.
InitLater ==
  InitPermissions /\ InitScope /\ InitFrames /\ InitServers /\ InitStorage
    /\ InitSelected /\ invalidatedKeys = {} /\ storageQueue = <<>>
    /\ InitHandler /\ InitAgents

vars == <<storeVars, chanVars, listVars, extraVars>>

Init == InitStore /\ InitChannel /\ InitList /\ InitStatus /\ InitMutation /\ InitLater

\* Events delivered while the store-backed screen is in use.
StoreEventMessages ==
  {Message("m2", "assistant", Tokens(1, MaxTok)),
   Message("m3", "assistant", Tokens(MaxTok, 1))}

Next ==
  \/ \E id \in SessionIds : EnterSession(id)
  \/ LeaveSession
  \/ \E id \in SessionIds, ok \in BOOLEAN : FetchSessionDone(id, Session(id, 1), ok)
  \/ \E id \in SessionIds : \E ms \in Snapshots(id), td \in TodoInputs,
        st \in StatusInputs, ok \in BOOLEAN :
       FetchSessionMessagesDone(id, ms, td, st, ok)
  \/ \E m \in StoreEventMessages : MessageUpdated(m)

Spec == Init /\ [][Next]_vars

\* ------------------------------------------------------------------ what the screens show
MessageIdsOf(messages) == {messages[k].info.id : k \in 1..Len(messages)}

\* The store-backed screen lists currentSession.messages.
StoreViewMessages == IF currentSession = Null THEN <<>> ELSE currentSession.messages

CountsOrZero(c) == IF c = Absent THEN ZeroCounts ELSE c

\* ------------------------------------------------------------------ C1
\* C1: whatever the live buffer holds belongs to the session that is current:
\* the buffer is for the session the screen shows, and every message in it is
\* a message of that session, also when answers to fetches issued for a
\* previously shown session arrive late.
C1_LiveBufferOwnership ==
  currentSession # Null =>
    /\ route # None => currentSession.session.id = route
    /\ \A k \in 1..Len(currentSession.messages) :
         currentSession.messages[k].info.sessionID = currentSession.session.id

\* ------------------------------------------------------------------ C3
\* C3: when a message.updated event for the shown session was handled before
\* that visit's messages fetch completed, then once the fetch has completed
\* the view holds the event's message and every message of the fetched
\* snapshot.
C3_EventsSurviveFetch ==
  (route # None /\ visit.loaded # <<>> /\ visit.early # {}) =>
    /\ visit.early \subseteq MessageIdsOf(StoreViewMessages)
    /\ MessageIdsOf(visit.loaded[1]) \subseteq MessageIdsOf(StoreViewMessages)

\* ------------------------------------------------------------------ C10
\* C10: stored token counts are the aggregate of the message list they belong
\* to: the tokenCounts of every messages cache entry, and sessionTokenCounts
\* of the session whose messages the store holds, equal the sums over the
\* assistant messages of that list (input, output, input + output).
C10_TokenCountsDerived ==
  /\ \A s \in SessionIds :
       HasData(msgCache[s]) =>
         msgCache[s].tokenCounts = calculateTokenCounts(msgCache[s].messages)
  /\ currentSession # Null =>
       CountsOrZero(sessionTokenCounts[currentSession.session.id])
         = calculateTokenCounts(currentSession.messages)

\* ------------------------------------------------------------------ the query-backed screen
LiveEventMessages == {Message("m1", "assistant", Tokens(1, MaxTok))}
LiveEventParts == {Part("p1", "m1", "b")}

NextLive ==
  \/ \E id \in SessionIds, stale \in BOOLEAN : OpenSession(id, stale)
  \/ CloseSession
  \/ SyncQueryToStore
  \/ \E id \in SessionIds : QueryFetchStart(id)
  \/ \E id \in SessionIds : \E ms \in Snapshots(id) : QueryFetchDone(id, ms, <<>>, Idle)
  \/ \E m \in LiveEventMessages : MessageUpdated(m)
  \/ \E p \in LiveEventParts : MessagePartUpdated(p)

SpecLive == Init /\ [][NextLive]_vars

\* ------------------------------------------------------------------ C2
\* C2: on a second visit of s1 that follows a first visit during which an
\* event was applied to the live buffer, a visit of another session, and no
\* event since, the view of s1 is the snapshot fetched during the second
\* visit.
C2_BufferIsolation ==
  (route = "s1" /\ visit.n = 2 /\ visit.firstEv /\ visit.between
     /\ ~visit.since /\ visit.loaded # <<>>)
    => ViewMessages("s1") = visit.loaded[1]

\* ------------------------------------------------------------------ C7
NoDuplicateIds(seq) == \A j, k \in 1..Len(seq) : seq[j].id = seq[k].id => j = k

WellKeyed(messages) ==
  /\ \A j, k \in 1..Len(messages) : messages[j].info.id = messages[k].info.id => j = k
  /\ \A k \in 1..Len(messages) : NoDuplicateIds(messages[k].parts)

MessageTwice(m) ==
  LET cs1 == updateMessageFromEvent(currentSession, m)
      tc1 == updateMessageTokenCounts(currentSession, sessionTokenCounts, m)
      e1 == updateMessage(msgCache[m.sessionID], m)
  IN /\ updateMessageFromEvent(cs1, m) = cs1
     /\ updateMessageTokenCounts(cs1, tc1, m) = tc1
     /\ updateMessage(e1, m) = e1

PartTwice(p) ==
  LET cs1 == updatePartFromEvent(currentSession, p)
      e1 == updatePart(msgCache[p.sessionID], p)
  IN /\ updatePartFromEvent(cs1, p) = cs1
     /\ updatePart(e1, p) = e1

\* C7: in every reachable state of the live buffer and the messages cache,
\* handling a message.updated or message.part.updated event a second time
\* changes nothing (messages, parts, token counts), and no message list holds
\* a message id twice nor a message a part id twice.
C7_IdempotentUpsert ==
  /\ \A m \in MessageInputs : MessageTwice(m)
  /\ \A p \in PartInputs : PartTwice(p)
  /\ currentSession # Null => WellKeyed(currentSession.messages)
  /\ \A s \in SessionIds : HasData(msgCache[s]) => WellKeyed(msgCache[s].messages)

\* An event replaced a part in the buffer and in the cache entry of s1, both
\* holding two messages.
C7_Witness ==
  /\ IsCurrent(currentSession, "s1")
  /\ Len(currentSession.messages) = 2
  /\ HasData(msgCache["s1"])
  /\ Len(msgCache["s1"].messages) = 2
  /\ \E k \in 1..2 : currentSession.messages[k].parts = <<Part("p1", "m1", "b")>>
  /\ \E k \in 1..2 : msgCache["s1"].messages[k].parts = <<Part("p1", "m1", "b")>>
  /\ \E k \in 1..2 : currentSession.messages[k].info = Message("m1", "assistant", Tokens(1, MaxTok))

\* ------------------------------------------------------------------ the channel alone
NextChannel ==
  \/ Mount
  \/ Unmount
  \/ \E c \in ConnStates : StoreChange(c)
  \/ Rerender
  \/ \E i \in 1..MaxSources : SourceOpen(i)
  \/ \E i \in 1..MaxSources : SourceError(i)
  \/ \E t \in 1..MaxSources : TimerFire(t)

SpecChannel == Init /\ [][NextChannel]_vars

LiveSources == {i \in 1..Len(sources) : sources[i].state # "closed"}
PendingTimers == {t \in 1..Len(timers) : timers[t].state = "pending"}

\* ------------------------------------------------------------------ C4
\* C4: once isConnected, serverUrl or activeProjectPath has become false,
\* empty or different, nothing of the old channel is left: every EventSource
\* that is not closed and every pending reconnect timer belongs to the
\* (server, project) pair now rendered, with the channel active, so no
\* connection to an old pair is opened after the teardown.
C4_ChannelTeardown ==
  /\ \A t \in PendingTimers :
       mounted /\ Active(conn) /\ Target(timers[t].closure) = Target(conn)
  /\ \A i \in LiveSources :
       mounted /\ Active(conn) /\ sources[i].target = Target(conn)

\* An SSE error, then a change of project before the timer fired: the timer
\* was cancelled and the channel now serves the new pair.
C4_Witness ==
  \E t \in 1..Len(timers) :
    /\ timers[t].state = "cancelled"
    /\ sources[timers[t].source].errored
    /\ mounted /\ Active(conn)
    /\ Target(timers[t].closure)[1] = conn.serverUrl
    /\ Target(timers[t].closure)[2] # conn.projectPath
    /\ LiveSources # {}

\* ------------------------------------------------------------------ C5
C5_SingleTimer == Cardinality(PendingTimers) <= 1

\* An error on a source closes it and sets exactly one timer, of 5 s.
C5_ErrorStep ==
  \A i \in 1..Len(sources) :
    (~sources[i].errored /\ sources'[i].errored) =>
      /\ sources'[i].state = "closed"
      /\ Len(timers') = Len(timers) + 1
      /\ timers'[Len(timers')].state = "pending"
      /\ timers'[Len(timers')].delay = ReconnectDelay
      /\ PendingTimers' = {Len(timers')}

\* A firing timer opens a connection only while the channel is active, and
\* then to the pair that is rendered.
C5_FireStep ==
  \A t \in 1..Len(timers) :
    (timers[t].state = "pending" /\ timers'[t].state = "fired"
       /\ Len(sources') > Len(sources)) =>
      /\ mounted /\ Active(conn)
      /\ sources'[Len(sources')].target = Target(conn)

\* C5: every SSE error closes the connection and schedules exactly one
\* reconnect after the fixed 5 s delay; never more than one reconnect timer
\* is pending; a firing timer opens a connection only if the channel is
\* still active.
C5_ReconnectPolicy == [][C5_ErrorStep /\ C5_FireStep]_vars /\ []C5_SingleTimer

\* Several errors were delivered: the first one's timer fired and reconnected,
\* the second one's timer is pending.
C5_Witness ==
  \E t, u \in 1..Len(timers) :
    /\ timers[t].state = "fired"
    /\ timers[u].state = "pending"
    /\ timers[u].source # timers[t].source

\* ------------------------------------------------------------------ C6
\* C6: at most one EventSource created by the channel is not closed, and it is
\* the one eventSourceRef holds, whatever the interleaving of effect re-runs,
\* errors and timer firings.
C6_SingleConnection ==
  /\ Cardinality(LiveSources) <= 1
  /\ LiveSources \subseteq {eventSourceRef}

\* A third connection is live after one was closed by an effect re-run and
\* one by an error whose timer fired.
C6_Witness ==
  /\ Len(sources) >= 3
  /\ Cardinality(LiveSources) = 1
  /\ \E i \in 1..Len(sources) : sources[i].state = "closed" /\ sources[i].errored
  /\ \E i \in 1..Len(sources) : sources[i].state = "closed" /\ ~sources[i].errored
  /\ \E t \in 1..Len(timers) : timers[t].state = "fired"

\* ------------------------------------------------------------------ session list: claims
ChangeKinds == {"update", "share", "unshare"}

NextList ==
  \/ SessionListRequest
  \/ \E id \in SessionIds : CreateSessionRequest(id)
  \/ \E kind \in ChangeKinds, id \in SessionIds : ChangeSessionRequest(kind, id)
  \/ \E id \in SessionIds : DeleteSessionRequest(id)
  \/ \E r \in resp : SessionsFetched(r)
  \/ \E r \in resp : CreateSucceeded(r)
  \/ \E r \in resp : DeleteSucceeded(r)
  \/ \E r \in resp : UpdateSucceeded(r)
  \/ \E r \in resp : ShareSucceeded(r)
  \/ \E r \in resp : UnshareSucceeded(r)
  \/ SessionUpdated
  \/ SessionDeleted

SpecList == Init /\ [][NextList]_vars

\* C8: the cached session list never holds two entries with the same session
\* id, however the create mutation's success patch and the session.created /
\* session.updated event of the same session interleave.
C8_NoDuplicateSessions ==
  HasData(listCache) =>
    \A i, j \in 1..Len(listCache.sessions) :
      i # j => listCache.sessions[i].id # listCache.sessions[j].id

\* C9: after any sequence of list fetches, successful mutations and session
\* events, the cached session list is sorted by time.updated, descending.
C9_SortedByUpdated ==
  HasData(listCache) =>
    \A k \in 1..(Len(listCache.sessions) - 1) :
      listCache.sessions[k].updated >= listCache.sessions[k + 1].updated

\* ------------------------------------------------------------------ session status: claims
\* The app starts against a server that already has both sessions.
InitWithSessions ==
  /\ InitStore /\ InitChannel /\ InitStatus /\ InitMutation /\ InitLater
  /\ srv = [i \in SessionIds |-> 1]
  /\ now = 1
  /\ evq = <<>>
  /\ resp = {}
  /\ listCache = Absent
  /\ detailCache = [i \in SessionIds |-> Absent]
  /\ listInvalidated = FALSE

StatusKinds == {<<Busy, "session.status">>, <<Idle, "session.status">>,
                <<Idle, "session.idle">>}

NextStatus ==
  \/ \E id \in SessionIds, k \in StatusKinds : StatusChange(id, k[1], k[2])
  \/ SessionStatusEvent
  \/ SessionIdleEvent
  \/ SessionListRequest
  \/ \E r \in resp : SessionsFetched(r)
  \/ \E id \in SessionIds : OpenSession(id, FALSE)
  \/ CloseSession
  \/ SyncQueryToStore
  \/ \E id \in SessionIds : QueryFetchDone(id, <<>>, <<>>, srvStatus[id])

SpecStatus == InitWithSessions /\ [][NextStatus]_vars

StatusOfEvent(e) == IF e.type = "session.idle" THEN Idle ELSE e.info.status

\* C11: handling a session.status / session.idle event for a session sets
\* the status held for that session (list status map, store status map, its
\* messages entry, the live buffer when it is current) to the event's status
\* and leaves the status held for every other session as it was; so under any
\* interleaving each session's status is that of its own last applied event.
C11_StatusStep ==
  (evq # <<>> /\ evq' = Tail(evq)
     /\ Head(evq).type \in {"session.status", "session.idle"}) =>
    LET sid == Head(evq).info.sessionID
        st == StatusOfEvent(Head(evq))
    IN /\ HasData(listCache')
       /\ listCache'.statuses[sid] = st
       /\ sessionStatuses'[sid] = st
       /\ HasData(msgCache[sid]) =>
            HasData(msgCache'[sid]) /\ msgCache'[sid].status = st
       /\ IsCurrent(currentSession, sid) =>
            IsCurrent(currentSession', sid) /\ currentSession'.status = st
       /\ \A o \in SessionIds \ {sid} :
            /\ listCache'.statuses[o] =
                 IF HasData(listCache) THEN listCache.statuses[o] ELSE None
            /\ sessionStatuses'[o] = sessionStatuses[o]
            /\ msgCache'[o] = msgCache[o]
            /\ IsCurrent(currentSession, o) => currentSession' = currentSession

C11_StatusOrderIndependence == [][C11_StatusStep]_vars

\* Events for both sessions were applied: s1 is busy everywhere it is held
\* (it is the current session and has a messages entry), s2 is idle.
C11_Witness ==
  /\ HasData(listCache)
  /\ listCache.statuses["s1"] = Busy /\ listCache.statuses["s2"] = Idle
  /\ sessionStatuses["s1"] = Busy /\ sessionStatuses["s2"] = Idle
  /\ IsCurrent(currentSession, "s1") /\ currentSession.status = Busy
  /\ HasData(msgCache["s1"]) /\ msgCache["s1"].status = Busy
  /\ srvStatus["s2"] = Idle

PendingStatusEvent(id) ==
  \E k \in 1..Len(evq) :
    evq[k].type \in {"session.status", "session.idle"} /\ evq[k].info.sessionID = id

\* C12: the status held for a session is never older than the newest signal
\* received for it: once every status event sent for the session has been
\* handled and no list response is outstanding, the status the list holds
\* for it is the server's, also when a list fetch issued before the last
\* event answered after it.
C12_StatusMostRecent ==
  \A id \in SessionIds :
    (HasData(listCache) /\ listCache.statuses[id] # None
       /\ ~PendingStatusEvent(id) /\ \A r \in resp : r.kind # "list")
      => listCache.statuses[id] = srvStatus[id]

\* ------------------------------------------------------------------ mutations: claims
StoreChangeKinds == {"store.update", "store.share", "store.unshare"}

\* Remote calls outstanding at a time.
MaxInFlight == 1

CanStart == Cardinality(resp) + Cardinality(req) < MaxInFlight

NextMutation ==
  \/ CanStart /\ \E id \in SessionIds : CreateSessionRequest(id)
  \/ CanStart /\ ChangeSessionRequest("update", "s1")
  \/ CanStart /\ DeleteSessionRequest("s1")
  \/ CanStart /\ \E kind \in PlainKinds : PlainRequest(kind, "s1")
  \/ CanStart /\ \E kind \in {"create", "delete", "prompt"} : MutationCallFails(kind, "s1")
  \/ CanStart /\ StoreCreateRequest("s1")
  \/ CanStart /\ StoreDeleteRequest("s1")
  \/ CanStart /\ \E kind \in StoreChangeKinds : ChangeSessionRequest(kind, "s1")
  \/ CanStart /\ \E kind \in StoreKinds : StoreCallFails(kind, "s1")
  \/ \E r \in resp : MutationFailed(r)
  \/ \E q \in req : RetryCallFails(q)
  \/ \E q \in req : RetryCallSucceeds(q)
  \/ \E r \in resp : CreateSucceeded(r)
  \/ \E r \in resp : DeleteSucceeded(r)
  \/ \E r \in resp : UpdateSucceeded(r)
  \/ \E r \in resp : PlainSucceeded(r)
  \/ \E r \in resp : StoreCreateDone(r)
  \/ \E r \in resp : StoreDeleteDone(r)
  \/ \E r \in resp : StoreUpdateDone(r)
  \/ \E r \in resp : StoreShareDone(r)
  \/ OpenSession("s1", FALSE)

SpecMutation == Init /\ [][NextMutation]_vars

CachedSessionState ==
  <<listCache, detailCache, msgCache, storeSessions, currentSession>>

\* C13: the session list, detail and messages entries and the store's
\* sessions / currentSession change through a mutation only in the step that
\* handles its confirmed answer: starting a mutation, a call that throws or
\* answers without data, a retry and a rejection leave all of them as they
\* were.
C13_PatchStep ==
  (CachedSessionState' # CachedSessionState) =>
    \/ route' # route
    \/ \E r \in resp : r \notin resp' /\ r.session # Null

C13_PatchAfterConfirmation == [][C13_PatchStep]_vars

\* A delete failed twice and was rejected, a store mutation had failed too,
\* while the caches hold sessions.
C13_Witness ==
  /\ \E x \in rejected : x.kind = "delete"
  /\ HasData(listCache) /\ Len(listCache.sessions) > 0
  /\ Len(storeSessions) > 0
  /\ IsCurrent(currentSession, "s1")
  /\ \A r \in resp : r.session # Null

\* C14: a mutation whose remote call fails issues exactly one remote call
\* before it is rejected to its caller.
C14_NoRetry == \A x \in rejected : x.calls = 1

\* ------------------------------------------------------------------ scope: claims
NextScope ==
  \/ \E p \in Pairs : ScopeChange(p)
  \/ ScopeRefresh
  \/ \E r \in scopeFetch : ScopeFetchDone(r)
  \/ \E r \in scopeFetch : ScopeFetchFails(r)
  \/ ScopeEvent

SpecScope == Init /\ [][NextScope]_vars

\* What the query-backed list reads: the entry under the active pair's key.
ReadQuerySessions == scopedCache[sessionsListKey(activePair.url, activePair.path)]

\* What the store-backed list reads: the store's sessions and statuses.
ReadStoreSessions == scopedStore

\* C15: scope isolation. Every entry of the query cache holds data of its
\* own key's pair only, and what the session lists read under the active
\* pair was fetched or patched under that pair.
C15_ScopeIsolation ==
  /\ \A p \in Pairs : scopedCache[sessionsListKey(p.url, p.path)] \subseteq {p}
  /\ ReadQuerySessions \subseteq {activePair}
  /\ ReadStoreSessions \subseteq {activePair}

\* ------------------------------------------------------------------ permissions: claims
\* The permissions the server asks for: p1 twice over with different
\* titles, p2, and an event without an id.
PermissionInputs ==
  {Permission("p1", "edit"), Permission("p1", "bash"), Permission("p2", "edit"),
   Permission("", "edit")}

NextPermissions ==
  \/ \E perm \in PermissionInputs : PermissionAsked(perm.id, perm.title)
  \/ \E id \in PermissionIds : PermissionAnswered(id)
  \/ PermissionUpdatedEvent
  \/ PermissionRepliedEvent
  \/ \E id \in PermissionIds, connected \in BOOLEAN : RespondToPermission(id, connected)
  \/ \E c \in permCalls, o \in RespondOutcomes : RespondSettles(c, o)

SpecPermissions == Init /\ [][NextPermissions]_vars

QueuedIds == {pendingPermissions[k].id : k \in 1..Len(pendingPermissions)}

NoDuplicatePermissions ==
  \A i, j \in 1..Len(pendingPermissions) :
    i # j => pendingPermissions[i].id # pendingPermissions[j].id

Handles(type) == evq # <<>> /\ Head(evq).type = type /\ evq' = Tail(evq)

\* A permission.updated whose id is already queued leaves the queue as it is.
C16_DuplicateStep ==
  (Handles("permission.updated") /\ Head(evq).info.id \in QueuedIds)
    => pendingPermissions' = pendingPermissions

\* C16: pendingPermissions holds at most one entry per permission id after
\* any sequence of permission events and responses, and a permission.updated
\* for a queued id changes nothing.
C16_NoDuplicatePermissions ==
  []NoDuplicatePermissions /\ [][C16_DuplicateStep]_vars

\* A second permission.updated for a queued id, with another title, has
\* been handled.
C16_Witness ==
  /\ Len(pendingPermissions) = 2
  /\ evq # <<>> /\ Head(evq).type = "permission.updated"
  /\ \E k \in 1..Len(pendingPermissions) :
       /\ pendingPermissions[k].id = Head(evq).info.id
       /\ pendingPermissions[k].title # Head(evq).info.title

\* The queue without the entries of one id, order kept.
QueueWithout(queue, id) ==
  [k \in 1..Cardinality({j \in 1..Len(queue) : queue[j].id # id}) |->
     queue[CHOOSE j \in 1..Len(queue) :
             /\ queue[j].id # id
             /\ Cardinality({i \in 1..j : queue[i].id # id}) = k]]

C17_RemovalStep ==
  /\ Handles("permission.replied") =>
       pendingPermissions' = QueueWithout(pendingPermissions, Head(evq).info.permissionID)
  /\ \A x \in permResults' \ permResults :
       /\ x.outcome = "data" =>
            x.returned /\ pendingPermissions' = QueueWithout(pendingPermissions, x.id)
       /\ x.outcome # "data" =>
            ~x.returned /\ pendingPermissions' = pendingPermissions
  /\ (QueuedIds \ QueuedIds' # {}) =>
       \/ Handles("permission.replied")
       \/ \E x \in permResults' \ permResults : x.outcome = "data"

\* C17: a permission leaves the queue when permission.replied for it is
\* handled or when the server confirms respondToPermission for it (which then
\* returns true); a response that fails, brings no data or has no connection
\* returns false and leaves the queue alone; removing an id that is not
\* queued changes nothing.
C17_PermissionRemoval == [][C17_RemovalStep]_vars

\* A response failed while its permission was queued, another was confirmed,
\* and one was refused for lack of a connection.
C17_Witness ==
  /\ \E x \in permResults : x.outcome \in {"nodata", "throws"} /\ x.id \in QueuedIds
  /\ \E x \in permResults : x.outcome = "data" /\ x.id \notin QueuedIds

\* ------------------------------------------------------------------ message listener: claims
\* The servers store as the frames arrive: connected to u1 / p1, or not.
FrameConns ==
  {[isConnected |-> b, serverUrl |-> "u1", projectPath |-> "p1"] : b \in BOOLEAN}

NextFrames ==
  \/ Mount
  \/ \E c \in FrameConns : StoreChange(c)
  \/ \E i \in 1..Len(sources) : SourceOpen(i)
  \/ \E i \in 1..Len(sources) : SourceError(i)
  \/ \E f \in Frames : FrameSent(f)
  \/ LiveConnection /\ MalformedFrame
  \/ LiveConnection /\ IgnoredEvent
  \/ LiveConnection /\ PermissionUpdatedEvent
  \/ LiveConnection /\ SessionStatusEvent

SpecFrames == Init /\ [][NextFrames]_vars

\* A frame that is not JSON is taken off the stream: nothing else moves.
C18_DropStep ==
  (evq # <<>> /\ JSONParseThrows(Head(evq)) /\ evq' = Tail(evq)) =>
    /\ UNCHANGED <<listCache, detailCache, msgCache>>
    /\ UNCHANGED <<currentSession, sessionTokenCounts, sessionStatuses>>
    /\ UNCHANGED pendingPermissions
    /\ UNCHANGED <<sources, eventSourceRef, timers, reconnectTimeoutRef>>

\* An event handled on a connection that has dropped a frame takes effect.
C18_LaterStep ==
  (dropped # 0 /\ dropped = eventSourceRef /\ evq # <<>> /\ evq' = Tail(evq)) =>
    /\ Head(evq).type = "permission.updated" =>
         Head(evq).info.id \in QueuedIds'
    /\ Head(evq).type = "session.status" =>
         sessionStatuses'[Head(evq).info.sessionID] = Head(evq).info.status

\* C18: a message whose data is not valid JSON changes neither the request
\* cache, the live buffer, the permission queue, the connection nor the
\* reconnect timer, and the events that follow it on the connection are
\* handled: the connection that dropped it stays open.
C18_MalformedDropped ==
  /\ [][C18_DropStep /\ C18_LaterStep]_vars
  /\ [](LiveConnection /\ dropped = eventSourceRef /\ evq # <<>>
          => ENABLED <<NextFrames>>_evq)

\* The open connection has dropped a frame and the next event on it, a
\* permission request, is about to be handled.
C18_Witness ==
  /\ LiveConnection /\ dropped = eventSourceRef
  /\ evq # <<>> /\ Head(evq).type = "permission.updated"
  /\ pendingPermissions = <<>>
  /\ timers = <<>>

\* ------------------------------------------------------------------ servers store: claims
NextServers ==
  \/ \E name \in NameInputs, url \in UrlInputs : HandleAdd(name, url)
  \/ \E c \in calls, a \in HealthAnswers : HandleAddProbed(c, a)
  \/ \E id \in ServerIds : ConnectToServer(id)
  \/ \E c \in calls, a \in HealthAnswers : ConnectProbed(c, a)
  \/ \E c \in calls : ProjectsListed(c, <<>>)
  \/ \E id \in ServerIds : DisconnectFromServer(id)
  \/ \E id \in ServerIds : RemoveServer(id)

SpecServers == Init /\ [][NextServers]_vars

Unhealthy(a) == a.kind \in {"http", "throws", "nonerror"}

\* checkServerHealth turns every failure into { healthy: false, error }.
C19_HealthIsValue ==
  \A a \in HealthAnswers :
    Unhealthy(a) =>
      /\ ~checkServerHealth(a).healthy
      /\ a.kind = "http" => checkServerHealth(a).error = HttpText(a.status)
      /\ a.kind = "throws" => checkServerHealth(a).error = a.message

C19_ConnectStep ==
  \A x \in returns' \ returns :
    /\ Unhealthy(x.answer) =>
         /\ x.returned = FALSE /\ ~x.threw
         /\ serverStates'[x.id].status = "error"
         /\ Truthy(serverStates'[x.id].error)
         /\ Truthy(checkServerHealth(x.answer).error) =>
              serverStates'[x.id].error = checkServerHealth(x.answer).error
    /\ x.from = "unknown" =>
         /\ x.returned = FALSE /\ ~x.threw
         /\ UNCHANGED <<servers, serverStates, activeServerId>>

\* C19: a failed health probe is a value: checkServerHealth gives
\* { healthy: false, error } for a non-2xx answer and for a network failure,
\* connectToServer then resolves to false and leaves the server's status
\* 'error' with a non-empty reason; for an id without a state it returns
\* false and changes nothing.
C19_ConnectFailureIsValue ==
  []C19_HealthIsValue /\ [][C19_ConnectStep]_vars

\* One connect failed on a network error with an empty message and left
\* the fallback reason, and one was for an unknown id.
C19_Witness ==
  /\ \E x \in returns :
       /\ x.answer.kind = "throws" /\ x.answer.message = ""
       /\ serverStates[x.id] # Absent
       /\ serverStates[x.id].status = "error"
       /\ serverStates[x.id].error = "Failed to connect"
  /\ \E x \in returns : x.from = "unknown"

\* ------------------------------------------------------------------ add & connect
\* The add screen alone: servers are added and activated, nothing else
\* touches them.
NextAddServer ==
  \/ \E name \in NameInputs, url \in UrlInputs : HandleAdd(name, url)
  \/ \E c \in calls, a \in HealthAnswers : HandleAddProbed(c, a)
  \/ \E c \in calls, a \in HealthAnswers : ConnectProbed(c, a)
  \/ \E c \in calls, data \in ProjectAnswers : ProjectsListed(c, data)

SpecAddServer == Init /\ [][NextAddServer]_vars

ConfigsOf(list, id) == {k \in 1..Len(list) : list[k].id = id}

\* The add screen's probe was healthy: one ServerConfig more, with an id no
\* server had and the url typed (less a trailing slash).
C20_AddStep ==
  \A c \in calls :
    (c.op = "add" /\ c \notin calls' /\ Len(servers') # Len(servers)) =>
      /\ Len(servers') = Len(servers) + 1
      /\ \E d \in calls' \ calls :
           /\ d.from = "add" /\ d.op = "connect"
           /\ ConfigsOf(servers, d.id) = {} /\ serverStates[d.id] = Absent
           /\ Cardinality(ConfigsOf(servers', d.id)) = 1
           /\ servers'[Len(servers')] = ServerConfig(d.id, c.name, d.url)
           /\ c.url = TestUrl => d.url = TestUrl
           /\ activeServerId' = d.id

\* The connect that activation started met a healthy endpoint.
C20_ConnectStep ==
  \A x \in returns' \ returns :
    (x.from = "add" /\ x.answer.kind = "ok") =>
      /\ x.returned = TRUE
      /\ serverStates'[x.id].status = "connected"
      /\ serverStates'[x.id].version = x.answer.version
      /\ serverStates'[x.id].error = None
      /\ Cardinality(ConfigsOf(servers', x.id)) = 1
      /\ serverStates'[x.id].config = servers'[CHOOSE k \in ConfigsOf(servers', x.id) : TRUE]

\* C20: adding ("Test", "http://localhost:4096") against a health endpoint
\* that answers { version: v } and activating it gives one new ServerConfig
\* with a generated id and that url, and serverStates[id] connected with
\* version v and no error.
C20_AddAndConnect == [][C20_AddStep /\ C20_ConnectStep]_vars

\* "Test" at http://localhost:4096 has been added and is connected.
C20_Witness ==
  /\ Len(servers) >= 1
  /\ servers[1].name = "Test" /\ servers[1].url = TestUrl
  /\ activeServerId = servers[1].id
  /\ serverStates[servers[1].id].status = "connected"
  /\ serverStates[servers[1].id].version = "1.2.3"
  /\ \E x \in returns : x.from = "add" /\ x.id = servers[1].id /\ x.returned = TRUE

\* ------------------------------------------------------------------ C21
\* The servers store with its storage: servers are added from the add
\* screen, renamed, activated, connected, disconnected and removed.
StorageAnswers ==
  {a \in HealthAnswers :
     (a.kind = "ok" /\ a.version = "1.2.3") \/ (a.kind = "http" /\ a.status = 500)}

NextStorage ==
  \/ \E url \in {TestUrl, TestUrlSlash} : HandleAdd("Test", url)
  \/ \E c \in calls, a \in StorageAnswers : HandleAddProbed(c, a)
  \/ \E id \in ServerIds : ConnectToServer(id)
  \/ \E c \in calls, a \in StorageAnswers : ConnectProbed(c, a)
  \/ \E c \in calls, data \in ProjectAnswers : ProjectsListed(c, data)
  \/ \E id \in ServerIds \cup {NoId} :
       (id = NoId \/ HasId(servers, id)) /\ SetActiveServer(id)
  \/ \E path \in ProjectPaths \cup {None} : SetActiveProject(path)
  \/ \E id \in ServerIds : UpdateServer(id, "Renamed")
  \/ \E id \in ServerIds : DisconnectFromServer(id)
  \/ \E id \in ServerIds : RemoveServer(id)

SpecStorage == Init /\ [][NextStorage]_vars

\* removeServer(id) has run in this step.
Removes(id) == HasId(servers, id) /\ ~HasId(servers', id)

\* What removeServer(id) leaves of the server itself.
C21_ServerGone(id) ==
  /\ serverStates'[id] = Absent
  /\ ~HasId(storedServers', id)
  /\ serverStates[id] # Absent => serverStates[id].config.url \notin clients'

\* What removeServer(id) does to the selection in memory and to the stored
\* active-server id.
C21_Selection(id) ==
  IF activeServerId = id
    THEN /\ activeServerId' = NoId
         /\ activeProjectPath' = None
         /\ projects' = <<>>
         /\ storedActiveId' = NoId
    ELSE UNCHANGED <<activeServerId, activeProjectPath, projects>>

\* C21: after removeServer(id), id is in none of servers, serverStates and
\* the stored list and the client of its url is evicted; if id was active,
\* activeServerId and activeProjectPath are null, projects is empty and
\* the stored active-server id and that server's stored active project are
\* cleared; otherwise activeServerId, activeProjectPath and projects are
\* unchanged.
C21_RemoveServer ==
  [][\A id \in ServerIds :
       Removes(id) =>
         /\ C21_ServerGone(id)
         /\ C21_Selection(id)
         /\ activeServerId = id => storedProjects'[id] = None]_vars

\* The part of C21 that leaves the stored active project out.
C21_RemoveServerElse ==
  [][\A id \in ServerIds :
       Removes(id) => C21_ServerGone(id) /\ C21_Selection(id)]_vars

\* ------------------------------------------------------------------ C22
\* C22: the ids that have an entry in serverStates are the ids of servers,
\* and the config of each entry is that server's config, whatever the
\* order in which servers are added, removed, updated, connected and
\* disconnected.
C22_OneStatePerServer ==
  /\ \A id \in ServerIds : (serverStates[id] # Absent) <=> HasId(servers, id)
  /\ \A k \in 1..Len(servers) :
       serverStates[servers[k].id] # Absent =>
         serverStates[servers[k].id].config = servers[k]

\* ------------------------------------------------------------------ C23
\* The five operations run one after another: the next one starts when
\* the one before has returned, with everything it awaited.
\* No operation is waiting for anything.
AllReturned == calls = {}

NextSequential ==
  \/ \E url \in {TestUrl, TestUrlSlash} : AllReturned /\ AddServer("Test", url)
  \/ \E id \in ServerIds : AllReturned /\ UpdateServer(id, "Renamed")
  \/ \E id \in ServerIds : AllReturned /\ RemoveServer(id)
  \/ \E id \in ServerIds \cup {NoId} :
       AllReturned /\ (id = NoId \/ HasId(servers, id)) /\ SetActiveServer(id)
  \/ \E path \in ProjectPaths \cup {None} : AllReturned /\ SetActiveProject(path)
  \/ \E c \in calls, a \in StorageAnswers : ConnectProbed(c, a)
  \/ \E c \in calls, data \in ProjectAnswers : ProjectsListed(c, data)

SpecSequential == Init /\ [][NextSequential]_vars

\* The stored active-server id and the stored active project of the
\* active server are the ones in memory.
C23_SelectionPersisted ==
  /\ storedActiveId = activeServerId
  /\ activeServerId # NoId => storedProjects[activeServerId] = activeProjectPath

\* The stored list is the list in memory, as JSON.stringify writes it.
C23_ListPersisted ==
  storedServers = [k \in 1..Len(servers) |-> Stored(servers[k])]

\* C23: when addServer, updateServer, removeServer, setActiveServer and
\* setActiveProject are run one after another, then whenever the last one
\* has returned the stored server list, the stored active-server id and the
\* stored active project of the active server equal servers,
\* activeServerId and activeProjectPath in memory.
C23_PersistenceAwaited ==
  AllReturned => C23_ListPersisted /\ C23_SelectionPersisted

\* The part of C23 about the selection, and about the ids, names and urls
\* of the list.
C23_PersistedElse ==
  AllReturned =>
    /\ C23_SelectionPersisted
    /\ Len(storedServers) = Len(servers)
    /\ \A k \in 1..Len(servers) :
         Stored(servers[k]) = [storedServers[k] EXCEPT !.lastConnectedAt = None]

\* ------------------------------------------------------------------ C24
\* The query-backed screen with every event that writes both the live
\* buffer and the messages entry.
ConvergeSnapshots ==
  {<<>>, <<[info |-> Message("m1", "user", NoTokens), parts |-> <<>>]>>}

\* The screen's second effect has yet to copy the entry into the buffer;
\* it runs before the next event is handled.
SyncDue ==
  /\ route # None
  /\ HasData(msgCache[route])
  /\ IsCurrent(currentSession, route)
  /\ Len(currentSession.messages) = 0
  /\ initializeFromQuery(currentSession, msgCache[route]) # currentSession

NextConverge ==
  \/ \E stale \in BOOLEAN : OpenSession("s1", stale)
  \/ CloseSession
  \/ SyncQueryToStore
  \/ \E ms \in ConvergeSnapshots, td \in TodoInputs :
       QueryFetchDone("s1", ms, td, srvStatus["s1"])
  \/ \E m \in LiveEventMessages : ~SyncDue /\ MessageUpdated(m)
  \/ \E p \in LiveEventParts : ~SyncDue /\ MessagePartUpdated(p)
  \/ \E td \in TodoInputs : ~SyncDue /\ TodoUpdated("s1", td)
  \/ \E k \in StatusKinds : StatusChange("s1", k[1], k[2])
  \/ ~SyncDue /\ SessionStatusEvent
  \/ ~SyncDue /\ SessionIdleEvent

SpecConverge == InitWithSessions /\ [][NextConverge]_vars

\* handleEvent handles a message.updated, message.part.updated,
\* todo.updated or session.status event of session s in this step.
HandlesEventOf(s) ==
  \/ \E m \in LiveEventMessages : m.sessionID = s /\ MessageUpdated(m)
  \/ \E p \in LiveEventParts : p.sessionID = s /\ MessagePartUpdated(p)
  \/ \E td \in TodoInputs : TodoUpdated(s, td)
  \/ /\ evq # <<>> /\ Head(evq).type = "session.status"
     /\ Head(evq).info.sessionID = s
     /\ SessionStatusEvent

\* The live buffer holds what the messages entry of s holds.
Converged(cs, entry, s) ==
  /\ IsCurrent(cs, s)
  /\ HasData(entry)
  /\ cs.messages = entry.messages
  /\ cs.todos = entry.todos
  /\ cs.status = entry.status

\* C24: for the current session, once this visit's messages fetch has
\* answered, after every handled message.updated, message.part.updated,
\* todo.updated or session.status event of the session the live buffer's
\* messages, todos and status are those of the session's messages entry.
C24_PathsConverge ==
  [][\A s \in SessionIds :
       (route = s /\ IsCurrent(currentSession, s) /\ visit.loaded # <<>>
          /\ HandlesEventOf(s))
         => Converged(currentSession', msgCache'[s], s)]_vars

\* The step itself keeps the two equal: when they were equal before the
\* event they are equal after it.
C24_StepKeepsEqual ==
  [][\A s \in SessionIds :
       (Converged(currentSession, msgCache[s], s) /\ HandlesEventOf(s))
         => Converged(currentSession', msgCache'[s], s)]_vars

\* ------------------------------------------------------------------ C25
NextSelected ==
  \/ \E saved \in SavedInputs : SavedModelLoaded(saved)
  \/ \E data \in ModelsDataInputs : ModelsLoaded(data)

SpecSelected == Init /\ [][NextSelected]_vars

AvailableIds == {modelsData.models[k].id : k \in 1..Len(modelsData.models)}

\* The connected providers, by position, whose default model is available.
WithAvailableDefault ==
  {k \in 1..Len(modelsData.connectedProviderIds) :
     LET pr == modelsData.connectedProviderIds[k]
     IN /\ modelsData.defaultModels[pr] # None
        /\ FullId(pr, modelsData.defaultModels[pr]) \in AvailableIds}

FirstWithDefault ==
  CHOOSE k \in WithAvailableDefault : \A j \in WithAvailableDefault : k <= j

\* C25: the effective selected model is the saved model id when that is in
\* the available list; otherwise the default model of the first connected
\* provider whose default is in the list; otherwise the first available
\* model; and null only when no model is available.
C25_SelectedModelFallback ==
  /\ savedModel \in AvailableIds => selectedModel = savedModel
  /\ (savedModel \notin AvailableIds /\ WithAvailableDefault # {}) =>
       LET pr == modelsData.connectedProviderIds[FirstWithDefault]
       IN selectedModel = FullId(pr, modelsData.defaultModels[pr])
  /\ (savedModel \notin AvailableIds /\ WithAvailableDefault = {}
        /\ AvailableIds # {}) =>
       selectedModel = modelsData.models[1].id
  /\ selectedModel = <<>> <=> AvailableIds = {}

\* Nothing usable is saved, the first connected provider's default is not
\* available, the second one's is, and it is not the first model listed.
C25_Witness ==
  /\ savedModel = FullId("c", "x")
  /\ modelsData.connectedProviderIds = <<"a", "b">>
  /\ modelsData.defaultModels["a"] = "y"
  /\ modelsData.defaultModels["b"] = "x"
  /\ modelsData.models = <<[id |-> FullId("a", "x")], [id |-> FullId("b", "x")]>>
  /\ selectedModel = FullId("b", "x")

\* ------------------------------------------------------------------ C26
\* The channel of a connected app opens, fails and reopens while sessions
\* are listed and opened.
ConnectedTo == [isConnected |-> TRUE, serverUrl |-> "u1", projectPath |-> "p1"]

NextCatchUp ==
  \/ Mount
  \/ StoreChange(ConnectedTo)
  \/ \E i \in 1..MaxSources : SourceOpen(i)
  \/ \E i \in 1..MaxSources : SourceError(i)
  \/ \E t \in 1..MaxSources : TimerFire(t)
  \/ SessionListRequest
  \/ \E r \in resp : SessionsFetched(r)
  \/ \E id \in SessionIds : OpenSession(id, FALSE)
  \/ CloseSession
  \/ \E id \in SessionIds : \E ms \in Snapshots(id) : QueryFetchDone(id, ms, <<>>, Idle)

SpecCatchUp == InitWithSessions /\ [][NextCatchUp]_vars

\* Source i opens in this step.
Opens(i) ==
  /\ i \in 1..Len(sources)
  /\ sources[i].state = "connecting"
  /\ sources'[i].state = "open"

\* C26: when the event connection opens, first or again, every session
\* entry the cache holds for the active server and project (the list with
\* its status map, each session's detail, each session's messages with
\* their todos) is invalidated.
C26_CatchUpOnOpen ==
  [][\A i \in 1..MaxSources :
       Opens(i) =>
         CachedSessionKeys(sources[i].closure.serverUrl,
                           sources[i].closure.projectPath)
           \subseteq invalidatedKeys']_vars

\* The part of C26 about the list and its status map.
C26_ListOnOpen ==
  [][\A i \in 1..MaxSources :
       (Opens(i) /\ listCache # Absent) =>
         sessionsListKey(sources[i].closure.serverUrl,
                         sources[i].closure.projectPath) \in invalidatedKeys']_vars

\* ------------------------------------------------------------------ C27
\* s1 is opened and closed while the messages of s2 are prefetched and
\* events of s2 arrive.
OtherMessages == {Message("m3", "assistant", Tokens(MaxTok, 1))}
OtherParts == {Part("p2", "m3", "b")}
OtherSnapshots(id) ==
  IF id = "s1"
    THEN {<<[info |-> Message("m1", "user", NoTokens), parts |-> <<>>]>>}
    ELSE {<<>>, <<[info |-> Message("m3", "user", NoTokens), parts |-> <<>>]>>}

NextOther ==
  \/ OpenSession("s1", FALSE)
  \/ CloseSession
  \/ SyncQueryToStore
  \/ QueryFetchStart("s2")
  \/ \E id \in SessionIds : \E ms \in OtherSnapshots(id) :
       QueryFetchDone(id, ms, <<>>, srvStatus[id])
  \/ \E m \in OtherMessages : ~SyncDue /\ MessageUpdated(m)
  \/ \E p \in OtherParts : ~SyncDue /\ MessagePartUpdated(p)
  \/ ~SyncDue /\ TodoUpdated("s2", <<"t1">>)
  \/ StatusChange("s2", Busy, "session.status")
  \/ ~SyncDue /\ SessionStatusEvent

SpecOther == InitWithSessions /\ [][NextOther]_vars

NotCurrent(s) == ~IsCurrent(currentSession, s)

InfosOf(entry) == {entry.messages[k].info : k \in 1..Len(entry.messages)}

PartsOf(entry, messageId) ==
  UNION {{entry.messages[k].parts[j] : j \in 1..Len(entry.messages[k].parts)} :
           k \in {x \in 1..Len(entry.messages) : entry.messages[x].info.id = messageId}}

\* message.updated of a session that is not current.
C27_MessageStep ==
  \A m \in OtherMessages :
    (NotCurrent(m.sessionID) /\ MessageUpdated(m)) =>
      /\ currentSession' = currentSession
      /\ HasData(msgCache[m.sessionID]) =>
           HasData(msgCache'[m.sessionID]) /\ m \in InfosOf(msgCache'[m.sessionID])

\* message.part.updated of a session that is not current.
C27_PartStep ==
  \A p \in OtherParts :
    (NotCurrent(p.sessionID) /\ MessagePartUpdated(p)) =>
      /\ currentSession' = currentSession
      /\ (HasData(msgCache[p.sessionID])
            /\ p.messageID \in {i.id : i \in InfosOf(msgCache[p.sessionID])}) =>
           p \in PartsOf(msgCache'[p.sessionID], p.messageID)

\* todo.updated of a session that is not current.
C27_TodoStep ==
  \A id \in SessionIds : \A td \in TodoInputs :
    (NotCurrent(id) /\ TodoUpdated(id, td)) =>
      /\ currentSession' = currentSession
      /\ HasData(msgCache[id]) => msgCache'[id].todos = td

\* session.status of a session that is not current.
C27_StatusStep ==
  (evq # <<>> /\ Head(evq).type = "session.status"
     /\ NotCurrent(Head(evq).info.sessionID) /\ SessionStatusEvent) =>
    /\ currentSession' = currentSession
    /\ listCache'.statuses[Head(evq).info.sessionID] = Head(evq).info.status
    /\ sessionStatuses'[Head(evq).info.sessionID] = Head(evq).info.status

NextDeleted ==
  \/ SessionListRequest
  \/ \E r \in resp : SessionsFetched(r)
  \/ ChangeSessionRequest("update", "s2")
  \/ \E r \in resp : UpdateSucceeded(r)
  \/ SessionUpdated
  \/ \E id \in SessionIds : DeleteSessionRequest(id)
  \/ \E r \in resp : DeleteSucceeded(r)
  \/ SessionDeleted
  \/ OpenSession("s1", FALSE)
  \/ CloseSession
  \/ SyncQueryToStore
  \/ \E ms \in OtherSnapshots("s1") : QueryFetchDone("s1", ms, <<>>, Idle)

SpecDeleted == InitWithSessions /\ [][NextDeleted]_vars

\* handleEvent handles a session.deleted event in this step.
HandlesDeleted ==
  evq # <<>> /\ Head(evq).type = "session.deleted" /\ evq' = Tail(evq)

SessionsOf(entry) ==
  IF HasData(entry) THEN {entry.sessions[k] : k \in 1..Len(entry.sessions)} ELSE {}

\* What session.deleted does to the query cache.
C28_CacheStep ==
  HandlesDeleted =>
    LET sid == Head(evq).info.id
    IN /\ \A x \in SessionsOf(listCache') : x.id # sid
       /\ SessionsOf(listCache') = {x \in SessionsOf(listCache) : x.id # sid}
       /\ detailCache'[sid] = Absent
       /\ msgCache'[sid] = Absent
       /\ \A o \in SessionIds \ {sid} :
            detailCache'[o] = detailCache[o] /\ msgCache'[o] = msgCache[o]

\* C28: after a session.deleted event for a session is handled, the
\* session is not in the cached list, its detail and messages entries do
\* not exist, the other sessions and entries are unchanged, and if it was
\* the current session the live buffer no longer presents it.
C28_SessionDeleted ==
  [][/\ C28_CacheStep
     /\ HandlesDeleted =>
          (IsCurrent(currentSession, Head(evq).info.id)
             => ~IsCurrent(currentSession', Head(evq).info.id))]_vars

\* The part of C28 about the query cache.
C28_CacheOnly == [][C28_CacheStep]_vars

\* ------------------------------------------------------------------ C29
\* handleEvent handles a session.status event in this step.
HandlesStatus ==
  evq # <<>> /\ Head(evq).type = "session.status" /\ SessionStatusEvent

C29_StatusStep ==
  HandlesStatus =>
    LET sid == Head(evq).info.sessionID
        st == Head(evq).info.status
    IN /\ HasData(listCache') /\ listCache'.statuses[sid] = st
       /\ HasData(msgCache[sid]) =>
            HasData(msgCache'[sid]) /\ msgCache'[sid].status = st
       /\ IsCurrent(currentSession, sid) =>
            IsCurrent(currentSession', sid) /\ currentSession'.status = st

\* C29: after a session.status event for a session, the entry of the
\* list's status map for it, the status of its messages entry when that
\* holds data and, if it is the current session, the live buffer's status
\* all equal the event's status.
C29_StatusEverywhere == [][C29_StatusStep]_vars

\* s2 is open, its messages entry holds data, and a status event made it
\* busy in the status map, in the entry and in the live buffer.
C29_Witness ==
  /\ evq = <<>>
  /\ IsCurrent(currentSession, "s2") /\ currentSession.status = Busy
  /\ HasData(msgCache["s2"]) /\ msgCache["s2"].status = Busy
  /\ HasData(listCache) /\ listCache.statuses["s2"] = Busy
  /\ listCache.statuses["s1"] = None

\* ------------------------------------------------------------------ C30
\* As for the status claims, with idle signalled by session.idle only.
IdleKinds == {<<Busy, "session.status">>, <<Idle, "session.idle">>}

NextIdle ==
  \/ \E id \in SessionIds, k \in IdleKinds : StatusChange(id, k[1], k[2])
  \/ SessionStatusEvent
  \/ SessionIdleEvent
  \/ SessionListRequest
  \/ \E r \in resp : SessionsFetched(r)
  \/ \E id \in SessionIds : OpenSession(id, FALSE)
  \/ CloseSession
  \/ SyncQueryToStore
  \/ \E id \in SessionIds : QueryFetchDone(id, <<>>, <<>>, srvStatus[id])

SpecIdle == InitWithSessions /\ [][NextIdle]_vars

\* handleEvent handles a session.idle event in this step.
HandlesIdle ==
  evq # <<>> /\ Head(evq).type = "session.idle" /\ evq' = Tail(evq)

FetchedTodos == <<"t1">>
EventTodos == {<<>>, <<"t2">>, <<"t2", "t3">>}

NextTodos ==
  \/ OpenSession("s1", FALSE)
  \/ CloseSession
  \/ SyncQueryToStore
  \/ \E ms \in ConvergeSnapshots : QueryFetchDone("s1", ms, FetchedTodos, Idle)
  \/ \E id \in SessionIds, td \in EventTodos : ~SyncDue /\ TodoUpdated(id, td)

SpecTodos == Init /\ [][NextTodos]_vars

\* C31: after todo.updated(S, T) is handled the todo list held for S, in
\* its messages entry and in the live buffer when S is current, is exactly
\* T: nothing of the list held before is kept, and an empty T gives an
\* empty list.
C31_TodosReplaced ==
  [][\A id \in SessionIds : \A td \in EventTodos :
       TodoUpdated(id, td) =>
         /\ HasData(msgCache[id]) =>
              HasData(msgCache'[id]) /\ msgCache'[id].todos = td
         /\ IsCurrent(currentSession, id) =>
              IsCurrent(currentSession', id) /\ currentSession'.todos = td]_vars

\* s1 is open, its entry was fetched with <<"t1">>, and an event left
\* <<"t2">> alone in the entry and in the buffer.
C31_Witness ==
  /\ IsCurrent(currentSession, "s1") /\ currentSession.todos = <<"t2">>
  /\ HasData(msgCache["s1"]) /\ msgCache["s1"].todos = <<"t2">>

\* ------------------------------------------------------------------ C32
\* The message list an entry holds.
MessagesOf(entry) == IF HasData(entry) THEN entry.messages ELSE <<>>

\* The token counts an entry holds.
CountsOf(entry) == IF HasData(entry) THEN entry.tokenCounts ELSE ZeroCounts

BufferMessages(cs) == IF cs = Null THEN <<>> ELSE cs.messages

HasMessage(messages, messageId) ==
  \E k \in 1..Len(messages) : messages[k].info.id = messageId

\* A part event whose message is in neither list changes neither list nor
\* any token count.
C32_OrphanStep ==
  \A p \in LiveEventParts :
    (MessagePartUpdated(p)
       /\ ~HasMessage(BufferMessages(currentSession), p.messageID)
       /\ ~HasMessage(MessagesOf(msgCache[p.sessionID]), p.messageID)) =>
      /\ BufferMessages(currentSession') = BufferMessages(currentSession)
      /\ sessionTokenCounts' = sessionTokenCounts
      /\ MessagesOf(msgCache'[p.sessionID]) = MessagesOf(msgCache[p.sessionID])
      /\ CountsOf(msgCache'[p.sessionID]) = CountsOf(msgCache[p.sessionID])

\* A message that arrives in a list that did not have it arrives without
\* parts.
C32_ParentStep ==
  \A m \in LiveEventMessages :
    MessageUpdated(m) =>
      /\ \A k \in 1..Len(BufferMessages(currentSession')) :
           (BufferMessages(currentSession')[k].info.id = m.id
              /\ ~HasMessage(BufferMessages(currentSession), m.id)) =>
             BufferMessages(currentSession')[k].parts = <<>>
      /\ \A k \in 1..Len(MessagesOf(msgCache'[m.sessionID])) :
           (MessagesOf(msgCache'[m.sessionID])[k].info.id = m.id
              /\ ~HasMessage(MessagesOf(msgCache[m.sessionID]), m.id)) =>
             MessagesOf(msgCache'[m.sessionID])[k].parts = <<>>

\* C32: a message.part.updated event whose messageID is not in the target
\* session's message list leaves the list and the token counts unchanged in
\* the live buffer and in the request cache, and the part does not appear
\* when its message arrives later.
C32_OrphanPartNoOp == [][C32_OrphanStep /\ C32_ParentStep]_vars

\* s1 is open, its fetch answered with no message, and an event reached
\* the buffer during this visit without adding a message: a part event for
\* a message that neither list holds.
C32_Witness ==
  /\ route = "s1" /\ visit.ev /\ visit.loaded = <<(<<>>)>>
  /\ IsCurrent(currentSession, "s1") /\ currentSession.messages = <<>>
  /\ HasData(msgCache["s1"]) /\ msgCache["s1"].messages = <<>>

\* ------------------------------------------------------------------ C33
\* Servers are added from the add screen, activated and connected, and a
\* project is selected by hand.
NextAutoSelect ==
  \/ HandleAdd("Test", TestUrl)
  \/ \E c \in calls, a \in StorageAnswers : HandleAddProbed(c, a)
  \/ \E id \in ServerIds : ConnectToServer(id)
  \/ \E c \in calls, a \in StorageAnswers : ConnectProbed(c, a)
  \/ \E c \in calls, data \in ProjectAnswers : ProjectsListed(c, data)
  \/ \E id \in ServerIds \cup {NoId} :
       (id = NoId \/ HasId(servers, id)) /\ SetActiveServer(id)
  \/ SetActiveProject("p2")

SpecAutoSelect == Init /\ [][NextAutoSelect]_vars

\* connectToServer returns from its probe in this step: call c is answered.
Probes(c) == c \in calls /\ c.op = "connect" /\ c \notin calls'

\* refreshProjects returns from project.list() in this step.
Lists(c) == c \in calls /\ c.op = "projects" /\ c \notin calls'

\* A healthy probe of the active server goes on to list its projects; any
\* other probe, and the start of connectToServer, leave the projects and
\* the selected project alone.
C33_ConnectStep ==
  /\ \A c \in calls :
       Probes(c) =>
         /\ UNCHANGED <<projects, activeProjectPath>>
         /\ (serverStates'[c.id].status = "connected"
               /\ activeServerId = c.id /\ HasId(servers, c.id)) =>
              ProjectsCall(c, c.id, c.url) \in calls'
         /\ (serverStates'[c.id].status # "connected" \/ activeServerId # c.id) =>
              calls' = calls \ {c}
  /\ (\E id \in ServerIds : ConnectToServer(id)) =>
       UNCHANGED <<projects, activeProjectPath>>

\* The listing selects its first project when none is selected and there
\* is one, and otherwise leaves the selected project alone.
C33_ListStep ==
  \A c \in calls :
    Lists(c) =>
      IF activeProjectPath = None /\ projects' # <<>>
        THEN /\ activeProjectPath' = projects'[1]
             /\ activeServerId # NoId =>
                  storedProjects'[activeServerId] = projects'[1]
        ELSE UNCHANGED <<activeProjectPath, storedProjects>>

\* C33: after a successful connect of the active server activeProjectPath
\* is the first listed project's worktree if it was null and the list is
\* non-empty; connectToServer and refreshProjects never change a non-null
\* activeProjectPath; connecting a server that is not the active one
\* changes neither projects nor activeProjectPath.
C33_AutoSelectFirst == [][C33_ConnectStep /\ C33_ListStep]_vars

\* The active server was connected from the add screen, its projects were
\* listed and the first of them is selected, in memory and in storage,
\* while nothing else is under way.
C33_Witness ==
  /\ activeServerId = 1 /\ calls = {}
  /\ serverStates[1] # Absent /\ serverStates[1].status = "connected"
  /\ \E x \in returns : x.id = 1 /\ x.returned = TRUE
  /\ projects = <<"p1", "p2">>
  /\ activeProjectPath = "p1" /\ storedProjects[1] = "p1"

\* ------------------------------------------------------------------ C34
\* A server is added from the add screen and connected; everything a call
\* awaits returns or fails: the probe is answered, the write of
\* lastConnectedAt succeeds or rejects, the listing comes back.
NextConnecting ==
  \/ HandleAdd("Test", TestUrl)
  \/ \E c \in calls, a \in StorageAnswers : HandleAddProbed(c, a)
  \/ \E id \in ServerIds : ConnectToServer(id)
  \/ \E c \in calls, a \in StorageAnswers : ConnectProbed(c, a)
  \/ \E c \in calls, a \in StorageAnswers : ConnectStorageFailed(c, a)
  \/ \E c \in calls, data \in ProjectAnswers : ProjectsListed(c, data)

\* What a connectToServer(id) awaits returns or fails.
Answered(id) ==
  \E c \in calls, a \in StorageAnswers :
    c.id = id /\ (ConnectProbed(c, a) \/ ConnectStorageFailed(c, a))

SpecConnecting ==
  Init /\ [][NextConnecting]_vars /\ \A id \in ServerIds : WF_vars(Answered(id))

HasStatus(id, status) ==
  serverStates[id] # Absent /\ serverStates[id].status = status

\* C34: every connectToServer(id) that sets status 'connecting' eventually
\* sets 'connected' or 'error' once the probe and the storage write it
\* awaits have returned or failed.
C34_ConnectingIsTransient ==
  \A id \in ServerIds :
    HasStatus(id, "connecting") ~>
      (HasStatus(id, "connected") \/ HasStatus(id, "error"))

\* The same for the calls whose storage write succeeds.
C34_TransientIfStored ==
  \A id \in ServerIds :
    HasStatus(id, "connecting") ~>
      \/ HasStatus(id, "connected") \/ HasStatus(id, "error")
      \/ \E x \in returns : x.id = id /\ x.threw

\* ------------------------------------------------------------------ C35
\* Events of a session arrive while no fetch of it has run; the screen of
\* either session is opened afterwards, within the stale time of whatever
\* the cache holds.
NextUnfetched ==
  \/ \E id \in SessionIds : OpenSession(id, FALSE)
  \/ CloseSession
  \/ SyncQueryToStore
  \/ \E id \in SessionIds : \E ms \in OtherSnapshots(id) :
       QueryFetchDone(id, ms, <<>>, srvStatus[id])
  \/ \E m \in OtherMessages : ~SyncDue /\ MessageUpdated(m)
  \/ \E p \in OtherParts : ~SyncDue /\ MessagePartUpdated(p)
  \/ ~SyncDue /\ TodoUpdated("s2", <<"t1">>)
  \/ StatusChange("s2", Busy, "session.status")
  \/ ~SyncDue /\ SessionStatusEvent

SpecUnfetched == InitWithSessions /\ [][NextUnfetched]_vars

\* An entry that is absent with no fetch of it under way is absent after
\* the step.
C35_EventStep ==
  \A id \in SessionIds :
    (msgCache[id] = Absent /\ ~qpending[id]) => msgCache'[id] = Absent

\* Opening a session whose entry holds no fetched data starts a fetch.
C35_ReadStep ==
  \A id \in SessionIds :
    (route # id /\ route' = id /\ ~HasData(msgCache[id]) /\ ~qpending[id]) =>
      qpending'[id]

\* C35: message.updated, message.part.updated, session.status and
\* todo.updated for a session whose messages entry has never been fetched
\* leave the entry absent, so the first read still triggers a fetch.
C35_NoEntryFromEvents == [][C35_EventStep /\ C35_ReadStep]_vars

\* What does hold: an entry that holds fetched data keeps holding data.
C35_FetchedStaysFetched ==
  [][\A id \in SessionIds : HasData(msgCache[id]) => HasData(msgCache'[id])]_vars

\* ------------------------------------------------------------------ C36
\* addServer, updateServer, removeServer and connectToServer are called in
\* any order, a call starting while others wait for AsyncStorage or for
\* the probe.
NextLostUpdate ==
  \/ AddServerCalled("Test", TestUrl)
  \/ \E id \in ServerIds : UpdateServerCalled(id, "Renamed")
  \/ \E id \in ServerIds : RemoveServerCalled(id)
  \/ SaveRead
  \/ SaveWritten
  \/ RemoveRead
  \/ RemoveWritten
  \/ RemoveActiveRead
  \/ \E id \in ServerIds : HasId(servers, id) /\ ConnectToServer(id)
  \/ \E c \in calls, a \in StorageAnswers : ConnectProbedThenStorage(c, a)
  \/ StampRead
  \/ StampWritten

SpecLostUpdate == Init /\ [][NextLostUpdate]_vars

\* Every operation has completed.
AllCompleted == storageQueue = <<>> /\ calls = {}

IdsOf(list) == {list[k].id : k \in 1..Len(list)}

\* C36: after every operation of any interleaving of addServer,
\* updateServer, removeServer and connectToServer has completed, the ids
\* in persisted storage are the ids of the servers list in memory.
C36_NoLostUpdate == AllCompleted => IdsOf(storedServers) = IdsOf(servers)

\* What does hold: an id that is stored is an id that was handed out.
C36_StoredWasAdded == IdsOf(storedServers) \subseteq 1..uuids

\* ------------------------------------------------------------------ C37
\* Servers are added one after the other, activated, connected and
\* removed, a call starting while others wait for AsyncStorage, for the
\* probe or for the listing.
NextActiveChange ==
  \/ storageQueue = <<>> /\ AddServerCalled("Test", TestUrl)
  \/ SaveRead
  \/ SaveWritten
  \/ \E id \in ServerIds \cup {NoId} :
       (id = NoId \/ HasId(servers, id)) /\ SetActiveServerCalled(id)
  \/ ActiveSaved
  \/ ActiveRead
  \/ \E c \in calls, a \in StorageAnswers : ConnectProbedThenStorage(c, a)
  \/ StampRead
  \/ StampWritten
  \/ \E id \in ServerIds : RemoveServerCalled(id)
  \/ RemoveRead
  \/ RemoveWritten
  \/ RemoveActiveRead
  \/ RemoveCleared
  \/ \E c \in calls, data \in ProjectAnswers : ProjectsListed(c, data)

SpecActiveChange == Init /\ [][NextActiveChange]_vars

\* C37: projects is empty or the project list of the active server, and
\* activeProjectPath was selected or persisted for the active server: a
\* listing that comes back when its server is no longer the active one
\* replaces neither projects nor the selected project, in memory or in
\* storage.
C37_ProjectsOfActive ==
  [][\A c \in calls :
       (Lists(c) /\ c.id # activeServerId) =>
         UNCHANGED <<projects, activeProjectPath, storedProjects>>]_vars

\* ------------------------------------------------------------------ C38
\* Two servers are added one after the other; then setActiveServer is
\* called, a call starting while others wait for AsyncStorage, for the
\* probe or for the listing.
NextActivate ==
  \/ storageQueue = <<>> /\ AddServerCalled("Test", TestUrl)
  \/ SaveRead
  \/ SaveWritten
  \/ \E id \in ServerIds \cup {NoId} :
       (id = NoId \/ HasId(servers, id)) /\ SetActiveServerCalled(id)
  \/ ActiveSaved
  \/ ActiveRead
  \/ \E c \in calls, a \in StorageAnswers : ConnectProbedThenStorage(c, a)
  \/ StampRead
  \/ StampWritten
  \/ \E c \in calls, data \in ProjectAnswers : ProjectsListed(c, data)

SpecActivate == Init /\ [][NextActivate]_vars

\* C38: after every call of any interleaving of setActiveServer calls has
\* completed, the persisted active-server id is activeServerId, and
\* activeProjectPath is the project loaded for that server.
C38_SelectionConverges ==
  AllCompleted =>
    /\ storedActiveId = activeServerId
    /\ activeServerId # NoId => activeProjectPath = storedProjects[activeServerId]

\* ------------------------------------------------------------------ C39
\* The server asks for permissions and announces answers given elsewhere;
\* the modal shows a permission and is answered or closed.
NextHandler ==
  \/ \E id \in PermissionIds : PermissionAsked(id, "edit")
  \/ \E id \in PermissionIds : PermissionAnswered(id)
  \/ ~ShowDue /\ PermissionUpdatedEvent
  \/ ~ShowDue /\ PermissionRepliedEvent
  \/ ShowPermission
  \/ HandleClose
  \/ \E connected \in BOOLEAN : HandleResponse(connected)
  \/ \E c \in permCalls, o \in RespondOutcomes : ~ShowDue /\ HandleResponseSettles(c, o)

SpecHandler == Init /\ [][NextHandler]_vars

\* C39: the permission PermissionHandler shows is always a member of
\* pendingPermissions: when permission.replied or a confirmed response
\* removes it, it stops being shown.
C39_ShownIsPending ==
  currentPermission # NoPermission =>
    \E k \in 1..Len(pendingPermissions) :
      pendingPermissions[k].id = currentPermission.id

\* What does hold: a permission is pending at the moment it is shown.
C39_PendingWhenShown ==
  [][(currentPermission' # currentPermission /\ currentPermission' # NoPermission) =>
       (pendingPermissions # <<>> /\ currentPermission' = pendingPermissions[1])]_vars

\* ------------------------------------------------------------------ C40
AgentNames == {"build", "plan", "general"}
Directions == {1, -1}

NextAgents ==
  \/ SelectedAgentLoaded
  \/ \E list \in AgentLists : AgentsLoaded(list)
  \/ \E d \in Directions : HookCycleAgent(d)
  \/ \E name \in AgentNames : HookSetSelectedAgent(name)
  \/ \E list \in AgentLists : StoreFetchAgents(list)
  \/ StoreLoadSelectedAgent
  \/ \E d \in Directions : StoreCycleAgent(d)
  \/ \E name \in {"build", "plan"} : StoreSetSelectedAgent(name)

SpecAgents == Init /\ [][NextAgents]_vars

\* setSelectedAgent(name) of the hook, whose query has resolved, then
\* selectedAgent of the hook.
C40_HookRoundTrip ==
  \A name \in AgentNames :
    (HookSetSelectedAgent(name) /\ agentQuery # None
       /\ HasAgent(primaryAgents(agentsData), name)) =>
      getEffectiveSelectedAgent(agentQuery', agentsData') = name

\* setSelectedAgent(name) of the store, then selectedAgent of the store.
C40_StoreRoundTrip ==
  \A name \in AgentNames :
    (StoreSetSelectedAgent(name) /\ HasAgent(primaryAgents(storeAgents), name)) =>
      storeAgent' = name

\* C40: after setSelectedAgent(name) completes for a primary agent name,
\* the selectedAgent read through the same interface is name, so that
\* cycleAgent goes round the primary agents.
C40_AgentRoundTrip == [][C40_HookRoundTrip /\ C40_StoreRoundTrip]_vars

\* What does hold: the round trip through the store, and cycleAgent of
\* either interface never saves an agent that is not primary.
C40_StoreAndCycle ==
  [][/\ C40_StoreRoundTrip
     /\ (\E d \in Directions : HookCycleAgent(d)) =>
          HasAgent(primaryAgents(agentsData), agentSaved')
     /\ (\E d \in Directions : StoreCycleAgent(d)) =>
          HasAgent(primaryAgents(storeAgents), storeAgent')]_vars

====
